---------------------------- MODULE Spec2Model ----------------------------
(***************************************************************************)
(* A model of the pattern-mining core of eyabouden/pattern_internship:     *)
(*   - DataMerger (src/unnamed/part_009)                                   *)
(*   - PatternDetectionService, the orchestrator (src/unnamed/part_001)    *)
(*   - AssociationRuleMiner (.../dataProcessing/DataCleaner.ts, 381-791)   *)
(* Each component has its own specification (SpecMerger, SpecAnalyze,      *)
(* SpecMiner); the variables of the other components stay at their initial *)
(* value.                                                                  *)
(*                                                                         *)
(* JavaScript numbers are modelled as exact rationals plus NaN and the two *)
(* infinities; the rounding of IEEE doubles is not modelled.               *)
(***************************************************************************)
EXTENDS Integers, Sequences, FiniteSets, TLC

VARIABLES
    dataSources,   \* the DataSource[] handed to the merger / the orchestrator
    now,           \* the wall clock, what Date.now() returns next
    mergeOut,      \* outcome of DataMerger.mergeDataSources
    validateOut,   \* outcome of DataMerger.validateDataSources
    runs,          \* outcomes of the analyzeSalesPatterns calls made so far
    data,          \* the records handed to the AssociationRuleMiner
    minerOut,      \* outcome of AssociationRuleMiner.detectAssociationRules
    probe,         \* outcome of a pair of calculateSupport calls
    transactionsOut, \* outcome of AssociationRuleMiner.generateTransactions
    candidates,    \* the candidate patterns handed to the PatternScorer
    scoreOut,      \* outcome of PatternScorer.scoreAndFilterPatterns
    scoredPatterns, \* the scored patterns handed to validatePatterns
    validationOut, \* outcome of PatternScorer.validatePatterns
    exported,      \* the patterns handed to exportPatternsToJSON
    jsonData,      \* the text handed to importPatternsFromJSON
    imported,      \* outcome of importPatternsFromJSON
    cleanerInput,  \* the data, column types and config handed to the DataCleaner
    binOut,        \* outcome of DataCleaner.discretizeValue
    cleanOut,      \* outcome of DataCleaner.cleanAndTransformData
    columnInput,   \* the column handed to DataCleaner.detectColumnType
    typeOut,       \* outcome of DataCleaner.detectColumnType
    series,        \* the records handed to the TemporalPatternMiner, as runs
    seasonalOut,   \* outcome of TemporalPatternMiner.detectSeasonalPatterns
    anomalyOut     \* outcome of TemporalPatternMiner.detectTemporalAnomalies

vars == <<dataSources, now, mergeOut, validateOut, runs, data, minerOut, probe,
         transactionsOut, candidates, scoreOut, scoredPatterns, validationOut,
         exported, jsonData, imported,
         cleanerInput, binOut, cleanOut, columnInput, typeOut,
         series, seasonalOut, anomalyOut>>

mergerVars == <<dataSources, now, mergeOut, validateOut>>
analyzeVars == <<runs>>
minerVars == <<data, minerOut, probe>>
encodeVars == <<transactionsOut>>

\* the components that the merger, the orchestrator and the rule miner leave alone
scorerVars == <<candidates, scoreOut, scoredPatterns, validationOut>>

IdleEncode == transactionsOut = [status |-> "none"]
IdleScorer ==
    /\ candidates = <<>>
    /\ scoreOut = [status |-> "none"]
    /\ scoredPatterns = <<>>
    /\ validationOut = [status |-> "none"]
jsonVars == <<exported, jsonData, imported>>
IdleJson ==
    /\ exported = <<>>
    /\ jsonData = [wellFormed |-> FALSE, value |-> [kind |-> "null"]]
    /\ imported = [status |-> "none"]
cleanerVars == <<cleanerInput, binOut, cleanOut>>
IdleCleaner ==
    /\ cleanerInput = [status |-> "none"]
    /\ binOut = [status |-> "none"]
    /\ cleanOut = [status |-> "none"]
detectVars == <<columnInput, typeOut>>
IdleDetect ==
    /\ columnInput = <<>>
    /\ typeOut = [status |-> "none"]
temporalVars == <<series, seasonalOut, anomalyOut>>
IdleTemporal ==
    /\ series = <<>>
    /\ seasonalOut = [status |-> "none"]
    /\ anomalyOut = [status |-> "none"]
restVars == <<encodeVars, scorerVars, jsonVars, cleanerVars, detectVars, temporalVars>>
IdleRest ==
    IdleEncode /\ IdleScorer /\ IdleJson /\ IdleCleaner /\ IdleDetect /\ IdleTemporal

(***************************************************************************)
(* Bounds of the model.                                                    *)
(***************************************************************************)
MaxSources == 2      \* data sources in one call
MaxData == 2         \* records in one data source
ClockStart == 1      \* the first value of Date.now()
MaxTick == 1         \* milliseconds the clock may advance between two records
MaxRecords == 4      \* records handed to the miner

SeqsUpTo(S, n) == UNION {[1..k -> S] : k \in 0..n}

RECURSIVE SumSeq(_)
SumSeq(s) == IF s = <<>> THEN 0 ELSE Head(s) + SumSeq(Tail(s))

(***************************************************************************)
(* JavaScript values.  Every value is a record of the same shape so that   *)
(* any two of them can be compared.                                        *)
(*   t = "num":  the rational n/d in lowest terms, d > 0                   *)
(*   t = "nan", "inf" (n = 1 or -1 is the sign)                            *)
(*   t = "str":  the string s                                              *)
(*   t = "undef", "null", "obj" (an object, such as a Date: s names it)    *)
(***************************************************************************)
Abs(i) == IF i < 0 THEN -i ELSE i

RECURSIVE Gcd(_, _)
Gcd(a, b) == IF b = 0 THEN a ELSE Gcd(b, a % b)

JVal(t, n, d, s) == [t |-> t, n |-> n, d |-> d, s |-> s]

Num(n, d) ==
    LET g == Gcd(Abs(n), Abs(d))
        sg == IF d < 0 THEN -1 ELSE 1
    IN  JVal("num", (sg * n) \div g, (sg * d) \div g, "")

IntNum(n) == JVal("num", n, 1, "")
NaN == JVal("nan", 0, 1, "")
Inf(sign) == JVal("inf", sign, 1, "")
Str(s) == JVal("str", 0, 1, s)
Undefined == JVal("undef", 0, 1, "")
Null == JVal("null", 0, 1, "")
Obj(s) == JVal("obj", 0, 1, s)

IsNum(v) == v.t = "num"
IsFinite(v) == v.t = "num"
Sign(v) == IF v.n > 0 THEN 1 ELSE IF v.n < 0 THEN -1 ELSE 0

\* a / b on numbers (IEEE: x/0 is an infinity, 0/0 and Inf/Inf are NaN)
JDiv(a, b) ==
    CASE a.t = "nan" \/ b.t = "nan" -> NaN
      [] a.t = "inf" /\ b.t = "inf" -> NaN
      [] a.t = "inf" -> Inf(IF Sign(b) < 0 THEN -a.n ELSE a.n)
      [] b.t = "inf" -> IntNum(0)
      [] b.n = 0 -> IF a.n = 0 THEN NaN ELSE Inf(Sign(a))
      [] OTHER -> LET gn == Gcd(Abs(a.n), Abs(b.n))
                      gd == Gcd(a.d, b.d)
                  IN  IF a.n = 0 THEN IntNum(0)
                      ELSE Num((a.n \div gn) * (b.d \div gd), (a.d \div gd) * (b.n \div gn))

JMul(a, b) ==
    CASE a.t = "nan" \/ b.t = "nan" -> NaN
      [] a.t = "inf" \/ b.t = "inf" ->
            IF Sign(a) * Sign(b) = 0 THEN NaN ELSE Inf(Sign(a) * Sign(b))
      [] OTHER -> LET g1 == Gcd(Abs(a.n), b.d)
                      g2 == Gcd(Abs(b.n), a.d)
                  IN  IF a.n = 0 \/ b.n = 0 THEN IntNum(0)
                      ELSE Num((a.n \div g1) * (b.n \div g2), (a.d \div g2) * (b.d \div g1))

JAdd(a, b) ==
    CASE a.t = "nan" \/ b.t = "nan" -> NaN
      [] a.t = "inf" /\ b.t = "inf" -> IF a.n = b.n THEN a ELSE NaN
      [] a.t = "inf" -> a
      [] b.t = "inf" -> b
      [] OTHER -> LET g == Gcd(a.d, b.d)
                  IN  Num(a.n * (b.d \div g) + b.n * (a.d \div g), (a.d \div g) * b.d)

JNeg(a) ==
    CASE a.t = "nan" -> NaN
      [] a.t = "inf" -> Inf(-a.n)
      [] OTHER -> Num(-a.n, a.d)

JSub(a, b) == JAdd(a, JNeg(b))

\* a < b, a >= b, ... : every comparison with NaN is false
JLt(a, b) ==
    CASE a.t = "nan" \/ b.t = "nan" -> FALSE
      [] a.t = "inf" /\ b.t = "inf" -> a.n < b.n
      [] a.t = "inf" -> a.n < 0
      [] b.t = "inf" -> b.n > 0
      [] OTHER -> LET g == Gcd(a.d, b.d)
                  IN  a.n * (b.d \div g) < b.n * (a.d \div g)

JGt(a, b) == JLt(b, a)
JEq(a, b) == a.t # "nan" /\ b.t # "nan" /\ a = b
JGeq(a, b) == JGt(a, b) \/ JEq(a, b)
JLeq(a, b) == JLt(a, b) \/ JEq(a, b)

\* Math.min(a, b), Math.max(a, b): NaN if either argument is NaN
JMin(a, b) == IF a.t = "nan" \/ b.t = "nan" THEN NaN ELSE IF JLt(b, a) THEN b ELSE a
JMax(a, b) == IF a.t = "nan" \/ b.t = "nan" THEN NaN ELSE IF JGt(b, a) THEN b ELSE a
JAbs(a) == IF a.t = "inf" THEN Inf(1) ELSE IF a.t = "num" THEN Num(Abs(a.n), a.d) ELSE a

\* the truthiness of a value: `!v` is ~Truthy(v)
Truthy(v) ==
    CASE v.t = "num" -> v.n # 0
      [] v.t = "nan" -> FALSE
      [] v.t = "str" -> v.s # ""
      [] v.t \in {"undef", "null"} -> FALSE
      [] OTHER -> TRUE

\* record[key] of a JavaScript object: undefined when the key is absent
Get(record, key) == IF key \in DOMAIN record THEN record[key] ELSE Undefined

EmptyObject == [k \in {} |-> Undefined]

(***************************************************************************)
(* DataMerger                                                              *)
(***************************************************************************)
ProvenanceFields == {"__source__", "__source_type__", "__record_id__", "__merged_at__"}

\* new Date(t).toISOString(): a rendering of the clock value
ToISOString(t) == "1970-01-01T00:00:00." \o ToString(t) \o "Z"

\* `${source.name}_${Date.now()}_${index}`
DataMergerRecordId(name, t, index) == name \o "_" \o ToString(t) \o "_" \o ToString(index)

\* { __source__: ..., ...record }: the spread written last
MergedRecordSpreadLast(record, source, index, t) ==
    [k \in DOMAIN record \cup ProvenanceFields |->
        IF k \in DOMAIN record THEN record[k]
        ELSE CASE k = "__source__" -> Str(source.name)
               [] k = "__source_type__" -> Str(source.type)
               [] k = "__record_id__" -> Str(DataMergerRecordId(source.name, t, index))
               [] OTHER -> Str(ToISOString(t))]

\* { ...record, __source__, __source_type__, __record_id__, __merged_at__ }
MergedRecord(record, source, index, t) ==
    [k \in DOMAIN record \cup ProvenanceFields |->
        CASE k = "__source__" -> Str(source.name)
          [] k = "__source_type__" -> Str(source.type)
          [] k = "__record_id__" -> Str(DataMergerRecordId(source.name, t, index))
          [] k = "__merged_at__" -> Str(ToISOString(t))
          [] OTHER -> record[k]]

\* source.data.forEach(...) is callable only on an array
IsArray(d) == d.kind = "array"

\* the records before source i of the list
Offset(sources, i) == SumSeq([j \in 1..(i - 1) |-> Len(sources[j].data.items)])

\* source.data.forEach((record, index) => push(MergedRecord)); index starts at 0.
\* times[p] is what Date.now() returns at the p-th record of the run
MergeSource(sources, i, times) ==
    [k \in 1..Len(sources[i].data.items) |->
        MergedRecord(sources[i].data.items[k], sources[i], k - 1,
                     times[Offset(sources, i) + k])]

RECURSIVE ConcatUpTo(_, _, _)
ConcatUpTo(sources, i, times) ==
    IF i = 0 THEN <<>>
    ELSE ConcatUpTo(sources, i - 1, times) \o MergeSource(sources, i, times)

\* the sources visited last to first
RECURSIVE ConcatReversed(_, _, _)
ConcatReversed(sources, i, times) ==
    IF i = 0 THEN <<>>
    ELSE MergeSource(sources, i, times) \o ConcatReversed(sources, i - 1, times)

mergeDataSourcesReversed(sources, times) == ConcatReversed(sources, Len(sources), times)

\* DataMerger.mergeDataSources on sources whose data are arrays
mergeDataSources(sources, times) == ConcatUpTo(sources, Len(sources), times)

TotalRecords(sources) == Offset(sources, Len(sources) + 1)

\* the clock readings of a run of n records that starts at t0: the clock never
\* goes back and advances at most MaxTick between two records
ClockReadings(t0, n) ==
    {times \in [1..n -> t0..(t0 + n * MaxTick)] :
        \A p \in 1..n : times[p] - (IF p = 1 THEN t0 ELSE times[p - 1]) \in 0..MaxTick}

\* the errors validateDataSources pushes for one source, in order
SourceErrors(source) ==
    (IF source.name = "" THEN <<"Data source missing name">> ELSE <<>>)
    \o (IF source.type = "" THEN <<"Data source " \o source.name \o " missing type">> ELSE <<>>)
    \o (IF ~IsArray(source.data)
        THEN <<"Data source " \o source.name \o " data is not an array">> ELSE <<>>)
    \o (IF IsArray(source.data) /\ Len(source.data.items) = 0
        THEN <<"Data source " \o source.name \o " is empty">> ELSE <<>>)

RECURSIVE AllSourceErrors(_, _)
AllSourceErrors(sources, i) ==
    IF i = 0 THEN <<>>
    ELSE AllSourceErrors(sources, i - 1) \o SourceErrors(sources[i])

\* source.data.length of null or undefined raises a TypeError
LengthThrows(source) == source.data.kind \in {"undefined", "null"}

\* DataMerger.validateDataSources: the outcome of the call
validateDataSources(sources) ==
    IF \E i \in 1..Len(sources) : LengthThrows(sources[i])
    THEN [status |-> "threw", valid |-> FALSE, errors |-> <<>>]
    ELSE LET errors == (IF Len(sources) = 0 THEN <<"No data sources provided">> ELSE <<>>)
                       \o AllSourceErrors(sources, Len(sources))
         IN  [status |-> "returned", valid |-> (Len(errors) = 0), errors |-> errors]

(***************************************************************************)
(* The inputs of the merger                                                *)
(***************************************************************************)
\* Scenario A's CRM record, and records that already hold provenance names
MergeRecords ==
    { [k \in {"deal_value", "status"} |->
          IF k = "deal_value" THEN IntNum(100000) ELSE Str("won")],
      [k \in {"deal_value", "__source__", "__record_id__"} |->
          IF k = "deal_value" THEN IntNum(5) ELSE Str("legacy")] }

ArrayOf(items) == [kind |-> "array", items |-> items]
NotAnArray(kind) == [kind |-> kind, items |-> <<>>]

DataValues ==
    {ArrayOf(items) : items \in SeqsUpTo(MergeRecords, MaxData)}
    \cup {NotAnArray("undefined"), NotAnArray("null"), NotAnArray("object")}

SourceNames == {"", "crm", "crm_1"}
SourceTypes == {"", "crm", "erp"}

\* name and type vary together with the data only where a claim needs it
SourcePool ==
    {[name |-> n, type |-> "crm", data |-> d] : n \in SourceNames, d \in DataValues}
    \cup {[name |-> "crm", type |-> t, data |-> ArrayOf(<<>>)] : t \in SourceTypes}
    \cup {[name |-> "erp", type |-> "erp", data |-> d] :
            d \in {ArrayOf(items) : items \in SeqsUpTo(MergeRecords, MaxData)}}

NoMerge == [status |-> "none", sources |-> <<>>, times |-> <<>>, records |-> <<>>]
NoValidation == [status |-> "none", valid |-> FALSE, errors |-> <<>>]

InitMerger ==
    /\ dataSources \in SeqsUpTo(SourcePool, MaxSources)
    /\ now = ClockStart
    /\ mergeOut = NoMerge
    /\ validateOut = NoValidation
    /\ runs = <<>>
    /\ data = <<>>
    /\ minerOut = [status |-> "none"]
    /\ probe = [status |-> "none"]
    /\ IdleRest

\* a call of DataMerger.mergeDataSources(dataSources)
MergeDataSources ==
    /\ mergeOut.status = "none"
    /\ IF \A i \in 1..Len(dataSources) : IsArray(dataSources[i].data)
       THEN \E times \in ClockReadings(now, TotalRecords(dataSources)) :
              /\ mergeOut' = [status |-> "returned", sources |-> dataSources,
                              times |-> times,
                              records |-> mergeDataSources(dataSources, times)]
              /\ now' = IF TotalRecords(dataSources) = 0 THEN now
                        ELSE times[TotalRecords(dataSources)]
       ELSE /\ mergeOut' = [NoMerge EXCEPT !.status = "threw"]
            /\ now' = now
    /\ UNCHANGED <<dataSources, validateOut>>

\* a call of DataMerger.validateDataSources(dataSources)
ValidateDataSources ==
    /\ validateOut.status = "none"
    /\ validateOut' = validateDataSources(dataSources)
    /\ UNCHANGED <<dataSources, now, mergeOut>>

NextMerger ==
    \/ MergeDataSources /\ UNCHANGED <<analyzeVars, minerVars, restVars>>
    \/ ValidateDataSources /\ UNCHANGED <<analyzeVars, minerVars, restVars>>

SpecMerger == InitMerger /\ [][NextMerger]_vars


(***************************************************************************)
(* PatternDetectionService (the orchestrator)                              *)
(***************************************************************************)
\* Math.random(), as the template literal renders it: the p-th number of a run,
\* for the two generator states the model draws from
RandomStreams == {"alternating", "repeating"}
RandomAt(stream, p) == IF stream = "alternating" /\ p % 2 = 1 THEN "0.25" ELSE "0.75"
RandomNumbers(stream, n) == [p \in 1..n |-> RandomAt(stream, p)]

\* `${source.name}_${Date.now()}_${Math.random()}`
ServiceRecordId(name, t, random) == name \o "_" \o ToString(t) \o "_" \o random

ServiceProvenance == {"__source__", "__source_type__", "__record_id__"}

\* { ...record, __source__, __source_type__, __record_id__ }
ServiceMergedRecord(record, source, t, random) ==
    [k \in DOMAIN record \cup ServiceProvenance |->
        CASE k = "__source__" -> Str(source.name)
          [] k = "__source_type__" -> Str(source.type)
          [] k = "__record_id__" -> Str(ServiceRecordId(source.name, t, random))
          [] OTHER -> record[k]]

ServiceMergeSource(sources, i, t, randoms) ==
    [k \in 1..Len(sources[i].data.items) |->
        ServiceMergedRecord(sources[i].data.items[k], sources[i], t,
                            randoms[Offset(sources, i) + k])]

RECURSIVE ServiceConcatUpTo(_, _, _, _)
ServiceConcatUpTo(sources, i, t, randoms) ==
    IF i = 0 THEN <<>>
    ELSE ServiceConcatUpTo(sources, i - 1, t, randoms)
         \o ServiceMergeSource(sources, i, t, randoms)

\* PatternDetectionService.mergeDataSources; every Date.now() of the run reads t
serviceMergeDataSources(sources, t, randoms) ==
    ServiceConcatUpTo(sources, Len(sources), t, randoms)

\* The strings new Date(s) parses, with the calendar date it yields (read in UTC)
DateTable ==
    [s \in {"2024-03-20", "2024-03-05"} |->
        IF s = "2024-03-20" THEN [year |-> 2024, month |-> 3, day |-> 20]
        ELSE [year |-> 2024, month |-> 3, day |-> 5]]

\* parseDate: null for a falsy value or an invalid date, else the Date object
\* (an "obj" value whose s is the date); new Date(aDate) copies the date
parseDate(v) ==
    IF ~Truthy(v) THEN Null
    ELSE IF v.t \in {"str", "obj"} /\ v.s \in DOMAIN DateTable THEN Obj(v.s)
    ELSE Null

getDate(date) == DateTable[date.s].day

\* key.toLowerCase().includes('date') || ...includes('time'), on the field names
\* of the model
KeyIsDateLike(key) == key \in {"submission_date", "tender_date"}

\* key.includes('_'), on the field names of the model
KeyHasUnderscore(key) ==
    key \in {"submission_date", "tender_date", "certification_density",
             "team_composition", "__source__", "__source_type__", "__record_id__",
             "submission_date_year", "submission_date_month",
             "submission_date_quarter", "tender_date_year", "tender_date_month",
             "tender_date_quarter"}

\* PatternDetectionService.discretizeValue
serviceDiscretizeValue(v) ==
    IF JLt(v, IntNum(100000)) THEN "low"
    ELSE IF JLt(v, IntNum(500000)) THEN "medium" ELSE "high"

DerivedDateKeys(record) ==
    {k \in DOMAIN record : KeyIsDateLike(k) /\ parseDate(record[k]) # Null}

\* the first loop of cleanAndTransformData: date conversion
CleanDates(record) ==
    LET ok == DerivedDateKeys(record)
        year == {k \o "_year" : k \in ok}
        month == {k \o "_month" : k \in ok}
        quarter == {k \o "_quarter" : k \in ok}
        base(k, suffix) == CHOOSE b \in ok : b \o suffix = k
    IN  [k \in DOMAIN record \cup year \cup month \cup quarter |->
            CASE k \in year -> IntNum(DateTable[parseDate(record[base(k, "_year")]).s].year)
              [] k \in month -> IntNum(DateTable[parseDate(record[base(k, "_month")]).s].month)
              [] k \in quarter ->
                    IntNum((DateTable[parseDate(record[base(k, "_quarter")]).s].month + 2) \div 3)
              [] k \in ok -> parseDate(record[k])
              [] OTHER -> record[k]]

\* the second loop: `${key}_category` for every number whose key has no '_'
CleanNumbers(record) ==
    LET nums == {k \in DOMAIN record : record[k].t \in {"num", "nan", "inf"}
                                        /\ ~KeyHasUnderscore(k)}
        cats == {k \o "_category" : k \in nums}
    IN  [k \in DOMAIN record \cup cats |->
            IF k \in cats /\ k \notin DOMAIN record
            THEN Str(serviceDiscretizeValue(record[CHOOSE b \in nums : b \o "_category" = k]))
            ELSE record[k]]

\* PatternDetectionService.cleanAndTransformData
serviceCleanAndTransformData(records) ==
    [p \in 1..Len(records) |-> CleanNumbers(CleanDates(records[p]))]

\* records.map(r => r.profit || r.margin || 0).filter(p => p > 0), then the mean
ProfitOf(r) ==
    IF Truthy(Get(r, "profit")) THEN Get(r, "profit")
    ELSE IF Truthy(Get(r, "margin")) THEN Get(r, "margin") ELSE IntNum(0)

RECURSIVE SumNums(_)
SumNums(s) == IF s = <<>> THEN IntNum(0) ELSE JAdd(Head(s), SumNums(Tail(s)))

calculateAverageProfit(records) ==
    IF Len(records) = 0 THEN IntNum(0)
    ELSE LET IsPositive(p) == JGt(p, IntNum(0))
             profits == SelectSeq([i \in 1..Len(records) |-> ProfitOf(records[i])],
                                  IsPositive)
         IN  IF Len(profits) > 0 THEN JDiv(SumNums(profits), IntNum(Len(profits)))
             ELSE IntNum(0)

calculateWinRate(records) ==
    IF Len(records) = 0 THEN IntNum(0)
    ELSE LET IsWin(r) == Get(r, "status") = Str("won") \/ Get(r, "outcome") = Str("success")
         IN  JMul(JDiv(IntNum(Len(SelectSeq(records, IsWin))), IntNum(Len(records))),
                  IntNum(100))

\* PatternDetectionService.calculateConfidence:
\* min(85 + min(sampleSize/100, 1) * 15, 95)
serviceCalculateConfidence(sampleSize) ==
    JMin(JAdd(IntNum(85), JMul(JMin(JDiv(sampleSize, IntNum(100)), IntNum(1)), IntNum(15))),
         IntNum(95))

\* a PatternRule; its description and lists are texts derived from the impact
PatternRule(id, title, impact, confidence, complexity, variables) ==
    [id |-> id, title |-> title, impact |-> impact, confidence |-> confidence,
     complexity |-> complexity, variables |-> variables]

createDefaultPattern(id, title) ==
    PatternRule(id, title, IntNum(0), IntNum(0), "Medium", 0)

\* d.certification_density || 0
DensityOf(d) ==
    IF Truthy(Get(d, "certification_density")) THEN Get(d, "certification_density")
    ELSE IntNum(0)

\* the body of detectCertificationPattern, for the pattern id given
CertificationPattern(records, id) ==
    LET HasCert(d) == Truthy(Get(d, "certification_density"))
                      \/ Truthy(Get(d, "team_composition"))
        IsLow(d) == JLt(DensityOf(d), Num(2, 10))
        IsMixed(d) == JGeq(DensityOf(d), Num(4, 10)) /\ JLeq(DensityOf(d), Num(6, 10))
        IsHigh(d) == JGt(DensityOf(d), Num(8, 10))
        certificationData == SelectSeq(records, HasCert)
        mixedAvgProfit == calculateAverageProfit(SelectSeq(certificationData, IsMixed))
        highAvgProfit == calculateAverageProfit(SelectSeq(certificationData, IsHigh))
        lowAvgProfit == calculateAverageProfit(SelectSeq(certificationData, IsLow))
        best == JMax(highAvgProfit, lowAvgProfit)
        impact == JMul(JDiv(JSub(mixedAvgProfit, best), best), IntNum(100))
    IN  IF Len(certificationData) = 0
        THEN createDefaultPattern(id, "Certification Pattern")
        ELSE PatternRule(id, "The Certification Velocity Paradox",
                         JAbs(impact),
                         serviceCalculateConfidence(IntNum(Len(certificationData))),
                         "Very High", 5)

\* the pattern id made unique with the id of the first record
serviceDetectCertificationPatternTagged(records) ==
    CertificationPattern(records,
        IF Len(records) = 0 THEN "certification_paradox"
        ELSE "certification_paradox_" \o Get(records[1], "__record_id__").s)

\* PatternDetectionService.detectCertificationPattern
serviceDetectCertificationPattern(records) ==
    CertificationPattern(records, "certification_paradox")

\* d.submission_date || d.tender_date
TenderDateOf(d) ==
    IF Truthy(Get(d, "submission_date")) THEN Get(d, "submission_date")
    ELSE Get(d, "tender_date")

\* PatternDetectionService.detectQuarterEndPattern
serviceDetectQuarterEndPattern(records) ==
    LET HasDate(d) == Truthy(TenderDateOf(d))
        IsQuarterEnd(d) == /\ parseDate(TenderDateOf(d)) # Null
                           /\ getDate(parseDate(TenderDateOf(d))) >= 15
                           /\ getDate(parseDate(TenderDateOf(d))) <= 31
        IsOther(d) == /\ parseDate(TenderDateOf(d)) # Null
                      /\ getDate(parseDate(TenderDateOf(d))) < 15
        tenderData == SelectSeq(records, HasDate)
        quarterEndSubmissions == SelectSeq(tenderData, IsQuarterEnd)
        otherSubmissions == SelectSeq(tenderData, IsOther)
        quarterEndProfit == calculateAverageProfit(quarterEndSubmissions)
        otherProfit == calculateAverageProfit(otherSubmissions)
        profitImpact == JMul(JDiv(JSub(quarterEndProfit, otherProfit), otherProfit),
                             IntNum(100))
    IN  IF Len(tenderData) = 0
        THEN createDefaultPattern("quarter_end_trap", "Quarter-End Pattern")
        ELSE PatternRule("quarter_end_trap", "The Quarter-End Acquisition Trap",
                         JAbs(profitImpact),
                         serviceCalculateConfidence(IntNum(Len(tenderData))),
                         "High", 5)

\* Array.prototype.sort((a, b) => b.impact - a.impact): a stable insertion sort;
\* a NaN difference counts as 0
ComesAfter(a, b) == JGt(JSub(b.impact, a.impact), IntNum(0))

RECURSIVE InsertByImpact(_, _)
InsertByImpact(sorted, x) ==
    IF sorted = <<>> THEN <<x>>
    ELSE IF ComesAfter(sorted[Len(sorted)], x)
         THEN InsertByImpact(SubSeq(sorted, 1, Len(sorted) - 1), x)
              \o <<sorted[Len(sorted)]>>
         ELSE sorted \o <<x>>

RECURSIVE SortByImpact(_)
SortByImpact(s) ==
    IF s = <<>> THEN <<>>
    ELSE InsertByImpact(SortByImpact(SubSeq(s, 1, Len(s) - 1)), s[Len(s)])

Slice(s, n) == SubSeq(s, 1, IF n < Len(s) THEN n ELSE Len(s))

\* PatternDetectionService.detectPatterns
detectPatterns(records, config) ==
    LET patterns ==
            << serviceDetectCertificationPattern(records),
               serviceDetectQuarterEndPattern(records),
               createDefaultPattern("industry_amplification", "Industry Experience Pattern"),
               createDefaultPattern("communication_hierarchy", "Communication Pattern"),
               createDefaultPattern("geographic_inefficiency", "Geographic Pattern"),
               createDefaultPattern("client_maturity_spiral", "Client Maturity Pattern"),
               createDefaultPattern("performance_prediction", "Performance Prediction Pattern"),
               createDefaultPattern("complexity_multiplier", "Complexity Pattern") >>
        Confident(p) == JGeq(p.confidence, config.minConfidence)
    IN  Slice(SortByImpact(SelectSeq(patterns, Confident)), config.maxPatterns)


\* Math.round of a finite number: floor(x + 1/2)
JRound(v) ==
    IF v.t # "num" THEN v
    ELSE LET m == 2 * v.n + v.d
             q == 2 * v.d
         IN  IntNum(IF m >= 0 THEN m \div q ELSE -((-m + q - 1) \div q))

RECURSIVE SumConfidence(_)
SumConfidence(patterns) ==
    IF patterns = <<>> THEN IntNum(0)
    ELSE JAdd(Head(patterns).confidence, SumConfidence(Tail(patterns)))

\* PatternDetectionService.calculateOverallConfidence
calculateOverallConfidence(patterns) ==
    IF Len(patterns) = 0 THEN IntNum(0)
    ELSE JRound(JDiv(SumConfidence(patterns), IntNum(Len(patterns))))

\* source.data.forEach raises a TypeError unless data is an array
MergeThrows(sources) == \E i \in 1..Len(sources) : ~IsArray(sources[i].data)

\* PatternDetectionService.analyzeSalesPatterns: the result the promise resolves
\* with, or the rejection.  winningConfigurations, sectorPerformance and
\* seasonalPatterns are further fields of the result computed from the cleaned
\* data; they feed neither patterns nor analysisMetadata and are left out.
analyzeSalesPatterns(sources, config, t, randoms) ==
    IF MergeThrows(sources)
    THEN [status |-> "rejected", config |-> config, startedAt |-> t, ids |-> <<>>,
          patterns |-> <<>>, totalRecords |-> 0, dataSources |-> 0,
          patternsDetected |-> 0, confidence |-> IntNum(0), timestamp |-> ""]
    ELSE LET mergedData == serviceMergeDataSources(sources, t, randoms)
             cleanedData == serviceCleanAndTransformData(mergedData)
             patterns == detectPatterns(cleanedData, config)
         IN  [status |-> "resolved", config |-> config, startedAt |-> t,
              ids |-> [p \in 1..Len(mergedData) |-> mergedData[p]["__record_id__"].s],
              patterns |-> patterns,
              totalRecords |-> Len(cleanedData),
              dataSources |-> Len(sources),
              patternsDetected |-> Len(patterns),
              confidence |-> calculateOverallConfidence(patterns),
              timestamp |-> ToISOString(t)]

(***************************************************************************)
(* The inputs of the orchestrator                                          *)
(***************************************************************************)
Rec2(k1, v1, k2, v2) == [k \in {k1, k2} |-> IF k = k1 THEN v1 ELSE v2]
Rec3(k1, v1, k2, v2, k3, v3) ==
    [k \in {k1, k2, k3} |-> IF k = k1 THEN v1 ELSE IF k = k2 THEN v2 ELSE v3]

AnalysisRecords ==
    { Rec2("certification_density", Num(5, 10), "profit", IntNum(30)),
      Rec2("certification_density", Num(9, 10), "profit", IntNum(20)),
      Rec3("submission_date", Str("2024-03-20"), "status", Str("won"), "profit", IntNum(10)),
      Rec3("submission_date", Str("2024-03-05"), "status", Str("lost"), "profit", IntNum(40)) }

AnalysisSources ==
    {[name |-> "crm", type |-> "crm", data |-> ArrayOf(items)] :
        items \in SeqsUpTo(AnalysisRecords, MaxData)}
    \cup {[name |-> "erp", type |-> "erp", data |-> ArrayOf(items)] :
            items \in SeqsUpTo(AnalysisRecords, 1)}
    \cup {[name |-> "crm", type |-> "crm", data |-> NotAnArray("undefined")],
          [name |-> "", type |-> "crm",
           data |-> ArrayOf(<<Rec2("certification_density", Num(5, 10), "profit", IntNum(30))>>)]}

\* minConfidence on the 0-1 scale of the configuration (0.6 is the default) and on
\* the 0-100 scale of the detectors' confidence
AnalysisConfigs ==
    {[minConfidence |-> c, maxPatterns |-> m] :
        c \in {IntNum(0), Num(6, 10), IntNum(90)}, m \in {1, 8}}

IdleMerger ==
    /\ mergeOut = NoMerge
    /\ validateOut = NoValidation

IdleAnalyze == runs = <<>>

IdleMiner ==
    /\ data = <<>>
    /\ minerOut = [status |-> "none"]
    /\ probe = [status |-> "none"]

\* DataSource.name is unique per analysis run
DistinctNames(sources) ==
    \A i, j \in 1..Len(sources) : i # j => sources[i].name # sources[j].name

InitAnalyze ==
    /\ dataSources \in {s \in SeqsUpTo(AnalysisSources, MaxSources) : DistinctNames(s)}
    /\ now = ClockStart
    /\ IdleMerger
    /\ IdleAnalyze
    /\ IdleMiner
    /\ IdleRest

\* the first call of analyzeSalesPatterns(dataSources, config)
AnalyzeSalesPatterns ==
    /\ runs = <<>>
    /\ \E config \in AnalysisConfigs, t \in now..(now + MaxTick), stream \in RandomStreams :
          /\ runs' = <<analyzeSalesPatterns(dataSources, config, t,
                           RandomNumbers(stream, TotalRecords(dataSources)))>>
          /\ now' = t
    /\ UNCHANGED <<dataSources, mergeOut, validateOut>>

\* a second call with the same data sources and the same config
AnalyzeAgain ==
    /\ Len(runs) = 1
    /\ \E t \in now..(now + MaxTick), stream \in RandomStreams :
          /\ runs' = Append(runs, analyzeSalesPatterns(dataSources, runs[1].config, t,
                           RandomNumbers(stream, TotalRecords(dataSources))))
          /\ now' = t
    /\ UNCHANGED <<dataSources, mergeOut, validateOut>>

NextAnalyze ==
    \/ AnalyzeSalesPatterns /\ UNCHANGED <<minerVars, restVars>>
    \/ AnalyzeAgain /\ UNCHANGED <<minerVars, restVars>>

SpecAnalyze == InitAnalyze /\ [][NextAnalyze]_vars


(***************************************************************************)
(* AssociationRuleMiner                                                    *)
(***************************************************************************)
\* Object.entries(record) lists the keys in insertion order: the records of the
\* model are built with their keys in this order
EntriesOrder == <<"a", "b", "c", "_b", "__tmp", "__source__">>

\* key.startsWith('__'), on the field names of the model
KeyStartsWithUnderscores(key) == key \in ProvenanceFields \cup {"__tmp"}

\* `${value}`: of a string, of an integer, of an object (s holds its rendering)
ValueToString(v) ==
    CASE v.t = "str" -> v.s
      [] v.t = "obj" -> v.s
      [] v.t = "num" -> ToString(v.n)
      [] v.t = "inf" -> IF v.n > 0 THEN "Infinity" ELSE "-Infinity"
      [] v.t = "nan" -> "NaN"
      [] v.t = "null" -> "null"
      [] OTHER -> "undefined"

\* the test `typeof value === 'object'` left out
shouldIncludeInTransactionNoObjectTest(key, value) ==
    /\ Truthy(value)
    /\ ~KeyStartsWithUnderscores(key)

\* AssociationRuleMiner.shouldIncludeInTransaction
shouldIncludeInTransaction(key, value) ==
    /\ Truthy(value)
    /\ ~KeyStartsWithUnderscores(key)
    /\ value.t \notin {"obj", "null"}

\* the tokens `${key}=${value}` of one record
TransactionOf(record) ==
    LET Keep(k) == k \in DOMAIN record /\ shouldIncludeInTransaction(k, record[k])
        kept == SelectSeq(EntriesOrder, Keep)
    IN  [i \in 1..Len(kept) |-> kept[i] \o "=" \o ValueToString(record[kept[i]])]

\* AssociationRuleMiner.generateTransactions
generateTransactions(records) ==
    LET NonEmpty(t) == Len(t) > 0
    IN  SelectSeq([i \in 1..Len(records) |-> TransactionOf(records[i])], NonEmpty)

\* array.includes(item)
Includes(array, item) == \E i \in 1..Len(array) : array[i] = item

\* itemset.some(...) in place of itemset.every(...)
calculateSupportSome(transactions, itemset) ==
    JDiv(IntNum(Cardinality({t \in 1..Len(transactions) :
                    \E i \in 1..Len(itemset) : Includes(transactions[t], itemset[i])})),
         IntNum(Len(transactions)))

\* AssociationRuleMiner.calculateSupport
calculateSupport(transactions, itemset) ==
    JDiv(IntNum(Cardinality({t \in 1..Len(transactions) :
                    \A i \in 1..Len(itemset) : Includes(transactions[t], itemset[i])})),
         IntNum(Len(transactions)))

RECURSIVE Flatten(_)
Flatten(ss) == IF ss = <<>> THEN <<>> ELSE Head(ss) \o Flatten(Tail(ss))

\* the keys of itemCounts, in the order they were first written
RECURSIVE FirstOccurrences(_)
FirstOccurrences(items) ==
    IF items = <<>> THEN <<>>
    ELSE LET before == FirstOccurrences(SubSeq(items, 1, Len(items) - 1))
             last == items[Len(items)]
         IN  IF Includes(before, last) THEN before ELSE Append(before, last)

\* itemCounts[item]
ItemCount(transactions, item) ==
    LET all == Flatten(transactions)
    IN  Cardinality({i \in 1..Len(all) : all[i] = item})

\* Object.entries(itemCounts).filter(count / total >= minSupport).map(item)
FrequentItems(transactions, minSupport) ==
    LET Frequent(item) == JGeq(JDiv(IntNum(ItemCount(transactions, item)),
                                    IntNum(Len(transactions))), minSupport)
    IN  SelectSeq(FirstOccurrences(Flatten(transactions)), Frequent)

\* the pairs [items[i], items[j]], i < j, in the order of the two loops
RECURSIVE PairsFrom(_, _, _)
PairsFrom(items, i, j) ==
    IF i >= Len(items) THEN <<>>
    ELSE IF j > Len(items) THEN PairsFrom(items, i + 1, i + 2)
    ELSE << <<items[i], items[j]>> >> \o PairsFrom(items, i, j + 1)

\* every pair of frequent items, the joint support not looked at
generateFrequentItemsetsUnfiltered(transactions, minSupport) ==
    PairsFrom(FrequentItems(transactions, minSupport), 1, 2)

\* AssociationRuleMiner.generateFrequentItemsets
generateFrequentItemsets(transactions, minSupport) ==
    LET Joint(itemset) == JGeq(calculateSupport(transactions, itemset), minSupport)
    IN  SelectSeq(PairsFrom(FrequentItems(transactions, minSupport), 1, 2), Joint)

\* bit j of i: i & (1 << j)
Pow2(n) == IF n = 0 THEN 1 ELSE IF n = 1 THEN 2 ELSE IF n = 2 THEN 4 ELSE 8
BitSet(i, j) == (i \div Pow2(j)) % 2 = 1

\* AssociationRuleMiner.generateSubsets: the proper non-empty subsets
generateSubsets(itemset) ==
    LET n == Len(itemset)
        Subset(i) == LET Chosen(item) == \E j \in 0..(n - 1) :
                                            itemset[j + 1] = item /\ BitSet(i, j)
                     IN  SelectSeq(itemset, Chosen)
    IN  [i \in 1..(Pow2(n) - 2) |-> Subset(i)]

\* the member calculateConfidence(transactions, antecedent, itemset) of lines
\* 575-584
calculateConfidenceOfRule(transactions, antecedent, itemset) ==
    LET antecedentSupport == calculateSupport(transactions, antecedent)
        itemsetSupport == calculateSupport(transactions, itemset)
    IN  IF JGt(antecedentSupport, IntNum(0))
        THEN JDiv(itemsetSupport, antecedentSupport) ELSE IntNum(0)

\* the member calculateConfidence(sampleSize) of lines 786-790
calculateConfidence(sampleSize) ==
    JMin(JAdd(IntNum(85), JMul(JMin(JDiv(sampleSize, IntNum(100)), IntNum(1)), IntNum(15))),
         IntNum(95))

\* ToNumber of the transactions array, as `sampleSize / 100` coerces it: the
\* array is joined to a string; "" is 0 and a string holding a token "k=v" is no
\* numeral
TransactionsToNumber(transactions) == IF Len(transactions) = 0 THEN IntNum(0) ELSE NaN

\* this.calculateConfidence(transactions, antecedent, itemset) at line 452.  The
\* class body declares calculateConfidence twice; a later method definition
\* replaces an earlier one of the same name, so the call runs the member of
\* lines 786-790 with sampleSize = transactions and the other arguments ignored.
CallCalculateConfidence(transactions, antecedent, itemset) ==
    calculateConfidence(TransactionsToNumber(transactions))

\* AssociationRuleMiner.calculateLift
calculateLift(transactions, antecedent, consequent, support) ==
    LET antecedentSupport == calculateSupport(transactions, antecedent)
        expectedConfidence == calculateSupport(transactions, consequent)
        actualConfidence == IF JGt(antecedentSupport, IntNum(0))
                            THEN JDiv(support, antecedentSupport) ELSE IntNum(0)
    IN  IF JGt(expectedConfidence, IntNum(0))
        THEN JDiv(actualConfidence, expectedConfidence) ELSE IntNum(0)

\* AssociationRuleMiner.calculateConviction
calculateConviction(transactions, antecedent, consequent, confidence) ==
    LET consequentSupport == calculateSupport(transactions, consequent)
    IN  IF JGt(consequentSupport, IntNum(0))
        THEN JDiv(JSub(IntNum(1), consequentSupport), JSub(IntNum(1), confidence))
        ELSE IntNum(0)

\* the rule built for one antecedent of one frequent itemset (lines 447-454)
RuleOf(transactions, itemset, subset) ==
    LET NotInSubset(item) == ~Includes(subset, item)
        consequent == SelectSeq(itemset, NotInSubset)
        support == calculateSupport(transactions, itemset)
        confidence == CallCalculateConfidence(transactions, subset, itemset)
    IN  [antecedent |-> subset, consequent |-> consequent, itemset |-> itemset,
         support |-> support, confidence |-> confidence,
         lift |-> calculateLift(transactions, subset, consequent, support),
         conviction |-> calculateConviction(transactions, subset, consequent, confidence)]

\* the rules computed for the frequent itemsets, in the order of the two forEach
RECURSIVE ComputedRules(_, _)
ComputedRules(transactions, itemsets) ==
    IF itemsets = <<>> THEN <<>>
    ELSE LET itemset == Head(itemsets)
             subsets == generateSubsets(itemset)
             HasConsequent(r) == Len(r.consequent) > 0
         IN  (IF Len(itemset) >= 2
              THEN SelectSeq([i \in 1..Len(subsets) |->
                                 RuleOf(transactions, itemset, subsets[i])], HasConsequent)
              ELSE <<>>)
             \o ComputedRules(transactions, Tail(itemsets))

\* rules.sort((a, b) => b.lift - a.lift): a stable insertion sort; a NaN
\* difference counts as 0
RECURSIVE InsertByLift(_, _)
InsertByLift(sorted, x) ==
    IF sorted = <<>> THEN <<x>>
    ELSE IF JGt(JSub(x.lift, sorted[Len(sorted)].lift), IntNum(0))
         THEN InsertByLift(SubSeq(sorted, 1, Len(sorted) - 1), x)
              \o <<sorted[Len(sorted)]>>
         ELSE sorted \o <<x>>

RECURSIVE SortByLift(_)
SortByLift(s) ==
    IF s = <<>> THEN <<>>
    ELSE InsertByLift(SortByLift(SubSeq(s, 1, Len(s) - 1)), s[Len(s)])

\* AssociationRuleMiner.detectAssociationRules, with the values of its locals
detectAssociationRules(records, minSupport, minConfidence) ==
    LET transactions == generateTransactions(records)
        frequentItemsets == generateFrequentItemsets(transactions, minSupport)
        computed == ComputedRules(transactions, frequentItemsets)
        Kept(r) == JGeq(r.confidence, minConfidence)
    IN  [status |-> "returned", minSupport |-> minSupport,
         minConfidence |-> minConfidence, transactions |-> transactions,
         frequentItemsets |-> frequentItemsets, computed |-> computed,
         rules |-> SortByLift(SelectSeq(computed, Kept))]

(***************************************************************************)
(* The inputs of the miner                                                 *)
(***************************************************************************)
MinerFields == {"a", "b", "c"}

\* a merged record: some of the fields a, b, c (each 1) and its source
MinerRecords ==
    {[k \in F \cup {"__source__"} |-> IF k = "__source__" THEN Str("crm") ELSE IntNum(1)] :
        F \in SUBSET MinerFields}

MinerTokens == <<"a=1", "b=1", "c=1">>

MinSupports == {Num(1, 4), Num(1, 2), IntNum(1)}
MinConfidences == {IntNum(0), Num(6, 10)}

InitMiner ==
    /\ data \in SeqsUpTo(MinerRecords, MaxRecords)
    /\ minerOut = [status |-> "none"]
    /\ probe = [status |-> "none"]
    /\ dataSources = <<>>
    /\ now = ClockStart
    /\ IdleMerger
    /\ IdleAnalyze
    /\ IdleRest

\* a call of detectAssociationRules(data, minSupport, minConfidence)
DetectAssociationRules ==
    /\ minerOut.status = "none"
    /\ probe.status = "none"
    /\ \E minSupport \in MinSupports, minConfidence \in MinConfidences :
          minerOut' = detectAssociationRules(data, minSupport, minConfidence)
    /\ UNCHANGED <<data, probe>>

\* calculateSupport of an itemset x and of an itemset y that holds x
CalculateSupport ==
    /\ minerOut.status = "none"
    /\ probe.status = "none"
    /\ \E Y \in SUBSET {1, 2, 3} : \E X \in SUBSET Y :
          LET InX(i) == \E k \in X : MinerTokens[k] = i
              InY(i) == \E k \in Y : MinerTokens[k] = i
              x == SelectSeq(MinerTokens, InX)
              y == SelectSeq(MinerTokens, InY)
              transactions == generateTransactions(data)
          IN  probe' = [status |-> "done", transactions |-> transactions,
                        x |-> x, y |-> y,
                        supportX |-> calculateSupport(transactions, x),
                        supportY |-> calculateSupport(transactions, y)]
    /\ UNCHANGED <<data, minerOut>>

NextMiner ==
    \/ DetectAssociationRules /\ UNCHANGED <<mergerVars, analyzeVars, restVars>>
    \/ CalculateSupport /\ UNCHANGED <<mergerVars, analyzeVars, restVars>>

SpecMiner == InitMiner /\ [][NextMiner]_vars

(***************************************************************************)
(* Properties of DataMerger                                                *)
(***************************************************************************)
\* the input record behind position k of source i, and where the merge puts it
InputRecord(out, i, k) == out.sources[i].data.items[k]
OutputRecord(out, i, k) == out.records[Offset(out.sources, i) + k]

\* the positions (i, k) of the records of the merged sources
Positions(out) ==
    {pos \in (1..Len(out.sources)) \X (1..TotalRecords(out.sources)) :
        pos[2] <= Len(out.sources[pos[1]].data.items)}

\* C1: mergeDataSources returns as many records as the sources hold together,
\* and every returned record carries the four provenance fields, __source__ and
\* __source_type__ being the name and the type of the source the record came
\* from, also when the input record has fields of those names.
C1_MergeCompleteness ==
    mergeOut.status = "returned" =>
        /\ Len(mergeOut.records)
              = SumSeq([i \in 1..Len(mergeOut.sources) |->
                            Len(mergeOut.sources[i].data.items)])
        /\ \A pos \in Positions(mergeOut) :
              LET r == OutputRecord(mergeOut, pos[1], pos[2])
              IN  /\ ProvenanceFields \subseteq DOMAIN r
                  /\ r["__source__"] = Str(mergeOut.sources[pos[1]].name)
                  /\ r["__source_type__"] = Str(mergeOut.sources[pos[1]].type)

\* a merge of two sources, three records or more, one of which came in with a
\* __source__ field of its own
C1_Witness ==
    /\ mergeOut.status = "returned"
    /\ Len(mergeOut.sources) = 2
    /\ Len(mergeOut.records) >= 3
    /\ \E pos \in Positions(mergeOut) :
          /\ "__source__" \in DOMAIN InputRecord(mergeOut, pos[1], pos[2])
          /\ InputRecord(mergeOut, pos[1], pos[2])["__source__"]
                # Str(mergeOut.sources[pos[1]].name)

\* C2 as stated: the k-th record of source i is at output position (sizes of
\* the sources before i) + k, nothing is dropped or added, and every original
\* field of the record keeps its name and value.
C2_EveryFieldKept ==
    mergeOut.status = "returned" =>
        /\ Len(mergeOut.records) = TotalRecords(mergeOut.sources)
        /\ \A pos \in Positions(mergeOut) :
              LET in == InputRecord(mergeOut, pos[1], pos[2])
                  r == OutputRecord(mergeOut, pos[1], pos[2])
              IN  \A f \in DOMAIN in : f \in DOMAIN r /\ r[f] = in[f]

\* C2 amended: the k-th record of source i is at output position (sizes of the
\* sources before i) + k, tagged with that source and with index k - 1; nothing
\* is dropped, added or deduplicated; every original field whose name is not one
\* of the four provenance names keeps its name and value, and the record gains
\* no field but the four provenance fields.
C2_OrderAndOwnFieldsKept ==
    mergeOut.status = "returned" =>
        /\ Len(mergeOut.records) = TotalRecords(mergeOut.sources)
        /\ \A pos \in Positions(mergeOut) :
              LET in == InputRecord(mergeOut, pos[1], pos[2])
                  r == OutputRecord(mergeOut, pos[1], pos[2])
                  source == mergeOut.sources[pos[1]]
                  t == mergeOut.times[Offset(mergeOut.sources, pos[1]) + pos[2]]
              IN  /\ DOMAIN r = DOMAIN in \cup ProvenanceFields
                  /\ \A f \in DOMAIN in \ ProvenanceFields : r[f] = in[f]
                  /\ r["__source__"] = Str(source.name)
                  /\ r["__record_id__"]
                        = Str(source.name \o "_" \o ToString(t) \o "_" \o ToString(pos[2] - 1))

\* two non-empty sources of different names merged, the second source holding
\* two different records, the last of which came in with a __record_id__
C2_Witness ==
    /\ mergeOut.status = "returned"
    /\ Len(mergeOut.sources) = 2
    /\ mergeOut.sources[1].name # mergeOut.sources[2].name
    /\ Len(mergeOut.sources[1].data.items) >= 1
    /\ Len(mergeOut.sources[2].data.items) = 2
    /\ mergeOut.sources[2].data.items[1] # mergeOut.sources[2].data.items[2]
    /\ "__record_id__" \in DOMAIN mergeOut.sources[2].data.items[2]
    /\ mergeOut.records[Len(mergeOut.records)]["__record_id__"] # Str("legacy")

\* the number of violations validateDataSources is to report for a source list
Violations(sources) ==
    (IF Len(sources) = 0 THEN 1 ELSE 0)
    + SumSeq([i \in 1..Len(sources) |->
                (IF sources[i].name = "" THEN 1 ELSE 0)
                + (IF sources[i].type = "" THEN 1 ELSE 0)
                + (IF ~IsArray(sources[i].data) THEN 1 ELSE 0)
                + (IF IsArray(sources[i].data) /\ Len(sources[i].data.items) = 0
                   THEN 1 ELSE 0)])

\* C4: validateDataSources never throws and never short-circuits: for every
\* source list it returns {valid, errors}, errors holding one entry for each
\* violation present (data that is null or undefined included), and valid is
\* true iff errors is empty.
C4_ValidateNeverThrows ==
    validateOut.status # "none" =>
        /\ validateOut.status = "returned"
        /\ Len(validateOut.errors) = Violations(dataSources)
        /\ validateOut.valid <=> (Len(validateOut.errors) = 0)

C5_RejectsInvalidSources ==
    \A n \in 1..Len(runs) :
        (Len(dataSources) = 0 \/ ~validateDataSources(dataSources).valid) =>
            runs[n].status = "rejected"

\* C6: two runs of the analysis on the same data sources with the same config
\* end alike and return the same pattern list (same ids, order, impact,
\* confidence), whatever the clock and the record ids of each run were.
C6_AnalysisIdempotent ==
    Len(runs) = 2 =>
        /\ runs[1].status = runs[2].status
        /\ runs[1].patterns = runs[2].patterns
        /\ runs[1].patternsDetected = runs[2].patternsDetected
        /\ runs[1].confidence = runs[2].confidence

\* two resolved runs that differ in their clock and in their record ids and
\* that detected a pattern from the records
C6_Witness ==
    /\ Len(runs) = 2
    /\ runs[1].status = "resolved"
    /\ runs[2].status = "resolved"
    /\ runs[1].startedAt # runs[2].startedAt
    /\ runs[1].ids # runs[2].ids
    /\ Len(runs[1].ids) >= 2
    /\ Len(runs[2].patterns) >= 2
    /\ \E p \in 1..Len(runs[2].patterns) : /\ runs[2].patterns[p].id = "certification_paradox"
          /\ runs[2].patterns[p].title = "The Certification Velocity Paradox"

(***************************************************************************)
(* Properties of AssociationRuleMiner                                      *)
(***************************************************************************)
InUnitInterval(v) == JLeq(IntNum(0), v) /\ JLeq(v, IntNum(1))

\* C7: for every non-empty list of transactions and all itemsets X within Y,
\* calculateSupport(transactions, X) >= calculateSupport(transactions, Y), and
\* both supports lie in [0,1].
C7_SupportMonotonic ==
    (probe.status = "done" /\ Len(probe.transactions) > 0) =>
        /\ JGeq(probe.supportX, probe.supportY)
        /\ InUnitInterval(probe.supportX)
        /\ InUnitInterval(probe.supportY)

\* supports taken over three transactions or more, of a non-empty X strictly
\* within Y, X being strictly more frequent than Y and Y occurring
C7_Witness ==
    /\ probe.status = "done"
    /\ Len(probe.transactions) >= 3
    /\ Len(probe.x) >= 1
    /\ Len(probe.y) > Len(probe.x)
    /\ JGt(probe.supportX, probe.supportY)
    /\ JGt(probe.supportY, IntNum(0))

\* the tokens that occur in the transactions
ItemsOf(transactions) ==
    {item \in {MinerTokens[k] : k \in 1..Len(MinerTokens)} :
        \E t \in 1..Len(transactions) : Includes(transactions[t], item)}

\* the transactions that hold every token of the set
Holding(transactions, items) ==
    {t \in 1..Len(transactions) : \A item \in items : Includes(transactions[t], item)}

\* |Holding| / |transactions| >= minSupport, in integers
SupportAtLeast(transactions, items, minSupport) ==
    Cardinality(Holding(transactions, items)) * minSupport.d
        >= minSupport.n * Len(transactions)

C9_FrequentPairsExact ==
    minerOut.status = "returned" =>
        LET transactions == minerOut.transactions
            found == minerOut.frequentItemsets
            AsSet(itemset) == {itemset[k] : k \in 1..Len(itemset)}
        IN  /\ \A i \in 1..Len(found) :
                  /\ Len(found[i]) = 2
                  /\ Cardinality(AsSet(found[i])) = 2
                  /\ AsSet(found[i]) \subseteq ItemsOf(transactions)
                  /\ SupportAtLeast(transactions, AsSet(found[i]), minerOut.minSupport)
            /\ \A i, j \in 1..Len(found) : i # j => AsSet(found[i]) # AsSet(found[j])
            /\ \A a, b \in ItemsOf(transactions) :
                  (a # b /\ SupportAtLeast(transactions, {a, b}, minerOut.minSupport))
                      => \E i \in 1..Len(found) : AsSet(found[i]) = {a, b}
            /\ (/\ transactions = << <<"a=1", "b=1">>, <<"a=1", "b=1">>,
                                     <<"a=1", "c=1">>, <<"a=1">> >>
                /\ minerOut.minSupport = Num(1, 2))
                  => found = << <<"a=1", "b=1">> >>

\* a call that keeps a pair and drops another pair whose two items are each
\* frequent on their own
C9_Witness ==
    /\ minerOut.status = "returned"
    /\ Len(minerOut.frequentItemsets) >= 1
    /\ \E a, b \in ItemsOf(minerOut.transactions) :
          /\ a # b
          /\ SupportAtLeast(minerOut.transactions, {a}, minerOut.minSupport)
          /\ SupportAtLeast(minerOut.transactions, {b}, minerOut.minSupport)
          /\ ~SupportAtLeast(minerOut.transactions, {a, b}, minerOut.minSupport)
          /\ \A i \in 1..Len(minerOut.frequentItemsets) :
                minerOut.frequentItemsets[i] \notin {<<a, b>>, <<b, a>>}

\* C10: for every rule computed by the miner, confidence, lift and conviction
\* are finite numbers, never NaN or Infinity.
C10_MeasuresFinite ==
    minerOut.status = "returned" =>
        \A i \in 1..Len(minerOut.computed) :
            /\ IsFinite(minerOut.computed[i].confidence)
            /\ IsFinite(minerOut.computed[i].lift)
            /\ IsFinite(minerOut.computed[i].conviction)

(***************************************************************************)
(* generateTransactions on records of every kind of value                  *)
(***************************************************************************)
MaxEncode == 2       \* records handed to generateTransactions

\* the values of a field: eligible ones, falsy ones and structured ones
EncodeValues ==
    {IntNum(1), IntNum(-3), IntNum(0), Str("won"), Str(""), Null, Undefined, NaN,
     Obj("[object Object]")}

\* records with a plain field, a field whose name starts with one underscore
\* and a field whose name starts with two
EncodeRecords ==
    {[k \in {"a", "_b", "__tmp"} |->
        IF k = "a" THEN va ELSE IF k = "_b" THEN vb ELSE vt] :
        va \in EncodeValues, vb \in {IntNum(7), Str(""), Obj("[object Object]")},
        vt \in {Str("x"), IntNum(0)}}
    \cup {[k \in {"a"} |-> va] : va \in EncodeValues}

InitEncode ==
    /\ data \in SeqsUpTo(EncodeRecords, MaxEncode)
    /\ minerOut = [status |-> "none"]
    /\ probe = [status |-> "none"]
    /\ dataSources = <<>>
    /\ now = ClockStart
    /\ IdleMerger
    /\ IdleAnalyze
    /\ IdleEncode
    /\ IdleScorer
    /\ IdleJson
    /\ IdleCleaner
    /\ IdleDetect
    /\ IdleTemporal

\* a call of generateTransactions(data)
GenerateTransactions ==
    /\ transactionsOut.status = "none"
    /\ transactionsOut' = [status |-> "returned", records |-> data,
                           transactions |-> generateTransactions(data)]
    /\ UNCHANGED <<mergerVars, analyzeVars, minerVars, scorerVars, jsonVars,
                   cleanerVars, detectVars, temporalVars>>

NextEncode == GenerateTransactions

SpecEncode == InitEncode /\ [][NextEncode]_vars

\* the fields of a record that are to give a token
EligibleFields(record) ==
    {k \in DOMAIN record :
        /\ Truthy(record[k])
        /\ record[k] # Str("")
        /\ record[k].t # "obj"
        /\ k \notin {"__tmp", "__source__", "__source_type__", "__record_id__",
                     "__merged_at__"}}

\* the positions of the records that have an eligible field, in order
RECURSIVE EncodedPositions(_, _)
EncodedPositions(records, n) ==
    IF n = 0 THEN <<>>
    ELSE IF EligibleFields(records[n]) = {}
         THEN EncodedPositions(records, n - 1)
         ELSE Append(EncodedPositions(records, n - 1), n)

\* C11: generateTransactions emits, for each record in order, the tokens
\* field=value over exactly the fields whose value is truthy, not the empty
\* string, not an object, and whose name does not start with '__'; a record with
\* no such field gives no transaction, so no transaction is empty and there are
\* at most as many transactions as records.
C11_TransactionsEncodeEligibleFields ==
    transactionsOut.status = "returned" =>
        LET records == transactionsOut.records
            out == transactionsOut.transactions
            from == EncodedPositions(records, Len(records))
        IN  /\ Len(out) <= Len(records)
            /\ Len(out) = Len(from)
            /\ \A i \in 1..Len(out) :
                  /\ Len(out[i]) > 0
                  /\ Len(out[i]) = Cardinality(EligibleFields(records[from[i]]))
                  /\ {out[i][j] : j \in 1..Len(out[i])}
                        = {k \o "=" \o ValueToString(records[from[i]][k]) :
                              k \in EligibleFields(records[from[i]])}

\* two records, the first without an eligible field (an object, a falsy value,
\* a '__' name), the second giving the tokens of its two eligible fields
C11_Witness ==
    /\ transactionsOut.status = "returned"
    /\ Len(transactionsOut.records) = 2
    /\ transactionsOut.records[1]
          = [k \in {"a", "_b", "__tmp"} |->
                IF k = "a" THEN Obj("[object Object]")
                ELSE IF k = "_b" THEN Str("") ELSE Str("x")]
    /\ transactionsOut.transactions = << <<"a=-3", "_b=7">> >>

(***************************************************************************)
(* PatternScorer                                                           *)
(***************************************************************************)
\* PatternScorer.getComplexityFactor: factors[complexity] || 1.0
getComplexityFactor(complexity) ==
    CASE complexity = "Low" -> Num(12, 10)
      [] complexity = "Medium" -> IntNum(1)
      [] complexity = "High" -> Num(8, 10)
      [] complexity = "Very High" -> Num(6, 10)
      [] OTHER -> IntNum(1)

\* PatternScorer.calculateSupport with Math.max(0, ...) for the variable factor
scorerCalculateSupportNoFloor(pattern) ==
    LET baseSupport == Num(3, 10)
        complexityFactor == getComplexityFactor(pattern.complexity)
        variableFactor == JMax(IntNum(0),
                               JSub(IntNum(1), JMul(IntNum(Len(pattern.variables)), Num(1, 10))))
    IN  JMin(IntNum(1), JMul(JMul(baseSupport, complexityFactor), variableFactor))

\* PatternScorer.calculateSupport
scorerCalculateSupport(pattern) ==
    LET baseSupport == Num(3, 10)
        complexityFactor == getComplexityFactor(pattern.complexity)
        variableFactor == JMax(Num(1, 10),
                               JSub(IntNum(1), JMul(IntNum(Len(pattern.variables)), Num(1, 10))))
    IN  JMin(IntNum(1), JMul(JMul(baseSupport, complexityFactor), variableFactor))

\* PatternScorer.calculateConfidence
scorerCalculateConfidence(pattern) ==
    IF Truthy(pattern.confidence)
    THEN JDiv(pattern.confidence, IntNum(100))
    ELSE LET baseConfidence == Num(7, 10)
             impactFactor == JMin(IntNum(1), JDiv(pattern.impact, IntNum(100)))
             complexityFactor == getComplexityFactor(pattern.complexity)
         IN  JMin(IntNum(1), JMul(JMul(baseConfidence, impactFactor), complexityFactor))

\* PatternScorer.calculateLift with support / confidence
scorerCalculateLiftInverted(pattern) ==
    LET confidence == scorerCalculateConfidence(pattern)
        support == scorerCalculateSupport(pattern)
    IN  IF JGt(support, IntNum(0)) THEN JDiv(support, confidence) ELSE IntNum(1)

\* PatternScorer.calculateLift
scorerCalculateLift(pattern) ==
    LET confidence == scorerCalculateConfidence(pattern)
        support == scorerCalculateSupport(pattern)
    IN  IF JGt(support, IntNum(0)) THEN JDiv(confidence, support) ELSE IntNum(1)

\* PatternScorer.calculateConviction
scorerCalculateConviction(pattern) ==
    LET confidence == scorerCalculateConfidence(pattern)
        support == scorerCalculateSupport(pattern)
    IN  IF JLt(confidence, IntNum(1))
        THEN JDiv(JSub(IntNum(1), support), JSub(IntNum(1), confidence))
        ELSE IntNum(1)

\* PatternScorer.calculateImpact
calculateImpact(pattern) ==
    IF Truthy(pattern.impact)
    THEN JDiv(pattern.impact, IntNum(100))
    ELSE LET baseImpact == Num(5, 10)
             variableFactor == JMin(IntNum(1), JDiv(IntNum(Len(pattern.variables)), IntNum(5)))
             complexityFactor == getComplexityFactor(pattern.complexity)
         IN  JMin(IntNum(1), JMul(JMul(baseImpact, variableFactor), complexityFactor))

\* PatternScorer.calculateComplexity: complexityMap[complexity] || 0.5
calculateComplexity(pattern) ==
    CASE pattern.complexity = "Low" -> Num(2, 10)
      [] pattern.complexity = "Medium" -> Num(5, 10)
      [] pattern.complexity = "High" -> Num(8, 10)
      [] pattern.complexity = "Very High" -> IntNum(1)
      [] OTHER -> Num(5, 10)

\* PatternScorer.calculateOverallScore
calculateOverallScore(scores) ==
    LET weightedScore ==
            JAdd(JAdd(JAdd(JAdd(JAdd(
                JMul(scores.support, Num(15, 100)),
                JMul(scores.confidence, Num(25, 100))),
                JMul(JDiv(JMin(scores.lift, IntNum(5)), IntNum(5)), Num(20, 100))),
                JMul(JDiv(JMin(scores.conviction, IntNum(10)), IntNum(10)), Num(10, 100))),
                JMul(scores.impact, Num(25, 100))),
                JMul(JSub(IntNum(1), scores.complexity), Num(5, 100)))
    IN  JMin(IntNum(1), weightedScore)

\* PatternScorer.calculatePatternScores
calculatePatternScores(pattern) ==
    LET components == [support |-> scorerCalculateSupport(pattern),
                       confidence |-> scorerCalculateConfidence(pattern),
                       lift |-> scorerCalculateLift(pattern),
                       conviction |-> scorerCalculateConviction(pattern),
                       impact |-> calculateImpact(pattern),
                       complexity |-> calculateComplexity(pattern)]
    IN  [patternId |-> pattern.id,
         support |-> components.support,
         confidence |-> components.confidence,
         lift |-> components.lift,
         conviction |-> components.conviction,
         impact |-> components.impact,
         complexity |-> components.complexity,
         overallScore |-> calculateOverallScore(components)]

\* { ...pattern, scores: calculatePatternScores(pattern) }
ScoredPattern(pattern) ==
    [id |-> pattern.id, title |-> pattern.title, description |-> pattern.description,
     impact |-> pattern.impact, confidence |-> pattern.confidence,
     complexity |-> pattern.complexity, variables |-> pattern.variables,
     scores |-> calculatePatternScores(pattern)]

\* b.scores.overallScore - a.scores.overallScore > 0: b is to come before a
RECURSIVE InsertByOverallScore(_, _)
InsertByOverallScore(sorted, x) ==
    IF sorted = <<>> THEN <<x>>
    ELSE IF JGt(JSub(x.scores.overallScore, sorted[Len(sorted)].scores.overallScore),
                IntNum(0))
         THEN InsertByOverallScore(SubSeq(sorted, 1, Len(sorted) - 1), x)
              \o <<sorted[Len(sorted)]>>
         ELSE sorted \o <<x>>

\* filteredPatterns.sort(...): a stable sort, highest overallScore first
RECURSIVE SortByOverallScore(_)
SortByOverallScore(s) ==
    IF s = <<>> THEN <<>>
    ELSE InsertByOverallScore(SortByOverallScore(SubSeq(s, 1, Len(s) - 1)), s[Len(s)])

\* the filter and the slice without the sort
scoreAndFilterPatternsUnsorted(input, maxPatterns, minConfidence, minSupport) ==
    LET Passes(pattern) == /\ JGeq(pattern.scores.confidence, minConfidence)
                           /\ JGeq(pattern.scores.support, minSupport)
    IN  Slice(SelectSeq([i \in 1..Len(input) |-> ScoredPattern(input[i])], Passes),
              maxPatterns)

\* the confidence threshold left out of the filter
scoreAndFilterPatternsNoConfidenceFilter(input, maxPatterns, minConfidence, minSupport) ==
    LET Passes(pattern) == JGeq(pattern.scores.support, minSupport)
    IN  Slice(SortByOverallScore(
                  SelectSeq([i \in 1..Len(input) |-> ScoredPattern(input[i])], Passes)),
              maxPatterns)

\* PatternScorer.scoreAndFilterPatterns
scoreAndFilterPatterns(input, maxPatterns, minConfidence, minSupport) ==
    LET scored == [i \in 1..Len(input) |-> ScoredPattern(input[i])]
        Passes(pattern) == /\ JGeq(pattern.scores.confidence, minConfidence)
                           /\ JGeq(pattern.scores.support, minSupport)
        filteredPatterns == SelectSeq(scored, Passes)
        sortedPatterns == SortByOverallScore(filteredPatterns)
    IN  Slice(sortedPatterns, maxPatterns)

(***************************************************************************)
(* The certification detector of the AssociationRuleMiner                  *)
(***************************************************************************)
\* a PatternRule; businessValue, implementation and metrics are lists of fixed
\* or formatted texts that no score reads, and are left out
Candidate(id, title, description, impact, confidence, complexity, variables) ==
    [id |-> id, title |-> title, description |-> description, impact |-> impact,
     confidence |-> confidence, complexity |-> complexity, variables |-> variables]

\* AssociationRuleMiner.createDefaultPattern
minerCreateDefaultPattern(id, title) ==
    Candidate(id, title, "Pattern analysis requires more data for accurate detection.",
              IntNum(0), IntNum(0), "Medium", <<>>)

\* d.certification_density || 0
CertificationDensityOrZero(d) ==
    IF Truthy(Get(d, "certification_density")) THEN Get(d, "certification_density")
    ELSE IntNum(0)

\* AssociationRuleMiner.detectCertificationPattern.  calculateAverageProfit of
\* this class has the body of PatternDetectionService.calculateAverageProfit.
\* The description embeds the impact formatted with toFixed(1); the text around
\* it stands for it.
minerDetectCertificationPattern(records) ==
    LET HasCert(d) == Truthy(Get(d, "certification_density"))
                      \/ Truthy(Get(d, "team_composition"))
        IsMixed(d) == /\ JGeq(CertificationDensityOrZero(d), Num(4, 10))
                      /\ JLeq(CertificationDensityOrZero(d), Num(6, 10))
        IsOther(d) == \/ JLt(CertificationDensityOrZero(d), Num(4, 10))
                      \/ JGt(CertificationDensityOrZero(d), Num(6, 10))
        certData == SelectSeq(records, HasCert)
        mixedProfit == calculateAverageProfit(SelectSeq(certData, IsMixed))
        otherProfit == calculateAverageProfit(SelectSeq(certData, IsOther))
        impact == IF JGt(otherProfit, IntNum(0))
                  THEN JMul(JDiv(JSub(mixedProfit, otherProfit), otherProfit), IntNum(100))
                  ELSE IntNum(0)
    IN  IF Len(certData) = 0
        THEN minerCreateDefaultPattern("certification_paradox", "Certification Pattern")
        ELSE Candidate("certification_paradox", "The Certification Velocity Paradox",
                       "Teams with mixed certification density outperform in profit margins.",
                       JAbs(impact), calculateConfidence(IntNum(Len(certData))),
                       "Very High",
                       <<"certification_density", "team_composition",
                         "experience_levels", "project_complexity">>)

(***************************************************************************)
(* The inputs of the scorer                                                *)
(***************************************************************************)
MaxCandidates == 2   \* candidate patterns besides the detector's

TwelveVariables ==
    <<"v1", "v2", "v3", "v4", "v5", "v6", "v7", "v8", "v9", "v10", "v11", "v12">>

\* candidates with impact within 0-500 and confidence within 0-100: provided
\* and derived confidence, an impact above 100, every kind of complexity label
CandidatePool ==
    { Candidate("p_strong", "Strong", "d", IntNum(45), IntNum(90), "Low", <<"x">>),
      Candidate("p_huge", "Huge", "d", IntNum(250), IntNum(70), "High", <<>>),
      Candidate("p_derived", "Derived", "d", IntNum(80), IntNum(0), "Very High",
                <<"x", "y">>),
      Candidate("p_weak", "Weak", "d", IntNum(0), IntNum(5), "Odd", TwelveVariables),
      Candidate("p_full", "Full", "d", IntNum(100), IntNum(100), "Medium", <<>>),
      Candidate("p_dense", "Dense", "d", IntNum(60), IntNum(95), "Very High",
                TwelveVariables),
      Candidate("p_plain", "Plain", "d", IntNum(60), IntNum(20), "Low", <<>>) }

\* record lists for the certification detector: without its fields, with a
\* falsy density, with densities in and out of the mixed band, with a team
DetectorInputs ==
    { <<>>,
      << Rec2("profit", IntNum(30), "status", Str("won")) >>,
      << Rec2("certification_density", IntNum(0), "profit", IntNum(30)) >>,
      << Rec2("certification_density", Num(5, 10), "profit", IntNum(30)),
         Rec2("certification_density", Num(9, 10), "profit", IntNum(20)) >>,
      << Rec2("team_composition", Str("mixed"), "profit", IntNum(10)) >> }

Thresholds == {IntNum(0), Num(1, 10), Num(6, 10)}
MaxPatternsValues == {0, 1, 3}

InitScorer ==
    /\ data \in DetectorInputs
    /\ candidates \in SeqsUpTo(CandidatePool, MaxCandidates)
    /\ scoreOut = [status |-> "none"]
    /\ scoredPatterns = <<>>
    /\ validationOut = [status |-> "none"]
    /\ minerOut = [status |-> "none"]
    /\ probe = [status |-> "none"]
    /\ dataSources = <<>>
    /\ now = ClockStart
    /\ IdleMerger
    /\ IdleAnalyze
    /\ IdleEncode
    /\ IdleJson
    /\ IdleCleaner
    /\ IdleDetect
    /\ IdleTemporal

\* the certification detector runs on the records; its pattern joins the
\* candidates
DetectCertificationPattern ==
    /\ minerOut.status = "none"
    /\ scoreOut.status = "none"
    /\ minerOut' = [status |-> "pattern", pattern |-> minerDetectCertificationPattern(data)]
    /\ candidates' = <<minerDetectCertificationPattern(data)>> \o candidates
    /\ UNCHANGED <<data, probe, scoreOut, scoredPatterns, validationOut>>

\* a call of scoreAndFilterPatterns(candidates, maxPatterns, minConfidence, minSupport)
ScoreAndFilterPatterns ==
    /\ scoreOut.status = "none"
    /\ \E maxPatterns \in MaxPatternsValues, minConfidence \in Thresholds,
          minSupport \in Thresholds :
          scoreOut' = [status |-> "returned", input |-> candidates,
                       maxPatterns |-> maxPatterns, minConfidence |-> minConfidence,
                       minSupport |-> minSupport,
                       patterns |-> scoreAndFilterPatterns(candidates, maxPatterns,
                                                           minConfidence, minSupport)]
    /\ UNCHANGED <<data, minerOut, probe, candidates, scoredPatterns, validationOut>>

NextScorer ==
    \/ DetectCertificationPattern /\ UNCHANGED <<mergerVars, analyzeVars, encodeVars, jsonVars, cleanerVars, detectVars, temporalVars>>
    \/ ScoreAndFilterPatterns /\ UNCHANGED <<mergerVars, analyzeVars, encodeVars, jsonVars, cleanerVars, detectVars, temporalVars>>

SpecScorer == InitScorer /\ [][NextScorer]_vars

(***************************************************************************)
(* Properties of the PatternScorer                                         *)
(***************************************************************************)
\* C12: for every pattern scored by the PatternScorer (impact within 0-500,
\* confidence within 0-100), each of the component scores support, confidence,
\* impact, complexity and the overallScore lies in [0,1].
C12_ScoresInUnitInterval ==
    scoreOut.status = "returned" =>
        \A i \in 1..Len(scoreOut.patterns) :
            LET scores == scoreOut.patterns[i].scores
            IN  /\ InUnitInterval(scores.support)
                /\ InUnitInterval(scores.confidence)
                /\ InUnitInterval(scores.impact)
                /\ InUnitInterval(scores.complexity)
                /\ InUnitInterval(scores.overallScore)

\* how often x occurs in the sequence
Count(seq, x) == Cardinality({i \in 1..Len(seq) : seq[i] = x})

\* the scored candidates that pass both thresholds of a call
Passing(out) ==
    LET Passes(pattern) == /\ JGeq(pattern.scores.confidence, out.minConfidence)
                           /\ JGeq(pattern.scores.support, out.minSupport)
    IN  SelectSeq([i \in 1..Len(out.input) |-> ScoredPattern(out.input[i])], Passes)

\* C13: scoreAndFilterPatterns returns at most maxPatterns patterns, every one
\* with scores.confidence >= minConfidence and scores.support >= minSupport, by
\* non-increasing overallScore, and no excluded candidate that passes both
\* thresholds has a strictly higher overallScore than a returned one.
C13_TopNOfFiltered ==
    scoreOut.status = "returned" =>
        LET out == scoreOut.patterns
            passing == Passing(scoreOut)
        IN  /\ Len(out) <= scoreOut.maxPatterns
            /\ Len(out) = (IF Len(passing) < scoreOut.maxPatterns
                           THEN Len(passing) ELSE scoreOut.maxPatterns)
            /\ \A i \in 1..Len(out) :
                  /\ JGeq(out[i].scores.confidence, scoreOut.minConfidence)
                  /\ JGeq(out[i].scores.support, scoreOut.minSupport)
                  /\ Count(out, out[i]) <= Count(passing, out[i])
            /\ \A i \in 1..(Len(out) - 1) :
                  JGeq(out[i].scores.overallScore, out[i + 1].scores.overallScore)
            /\ \A j \in 1..Len(passing) :
                  Count(out, passing[j]) < Count(passing, passing[j]) =>
                      \A i \in 1..Len(out) :
                          JLeq(passing[j].scores.overallScore, out[i].scores.overallScore)

\* three candidates pass, given by increasing overallScore; the best one alone
\* is returned
C13_Witness ==
    /\ scoreOut.status = "returned"
    /\ scoreOut.maxPatterns = 1
    /\ Len(Passing(scoreOut)) = 3
    /\ Len(scoreOut.patterns) = 1
    /\ JLt(Passing(scoreOut)[1].scores.overallScore,
           Passing(scoreOut)[2].scores.overallScore)
    /\ JLt(Passing(scoreOut)[2].scores.overallScore,
           Passing(scoreOut)[3].scores.overallScore)
    /\ scoreOut.patterns[1] = Passing(scoreOut)[3]

\* the 'insufficient data' placeholder: impact 0, confidence 0, no variables
IsPlaceholder(pattern) ==
    /\ pattern.impact = IntNum(0)
    /\ pattern.confidence = IntNum(0)
    /\ pattern.variables = <<>>

\* C14: the certification detector returns the placeholder when no record has
\* certification_density or team_composition; the scorer derives confidence 0
\* for a placeholder, and for every minConfidence > 0 no placeholder is in the
\* scorer's output.
C14_PlaceholderFilteredOut ==
    /\ minerOut.status = "pattern" =>
          ((\A i \in 1..Len(data) :
                /\ ~Truthy(Get(data[i], "certification_density"))
                /\ ~Truthy(Get(data[i], "team_composition")))
             => /\ IsPlaceholder(minerOut.pattern)
                /\ ScoredPattern(minerOut.pattern).scores.confidence = IntNum(0))
    /\ (scoreOut.status = "returned" /\ JGt(scoreOut.minConfidence, IntNum(0))) =>
          \A i \in 1..Len(scoreOut.patterns) : ~IsPlaceholder(scoreOut.patterns[i])

\* Scenario D: the detector gave the placeholder for records without its
\* fields, the scorer ran on it and two more candidates with minConfidence 0.6
\* and a support threshold it passes, and returned the others only
C14_Witness ==
    /\ minerOut.status = "pattern"
    /\ Len(data) >= 1
    /\ IsPlaceholder(minerOut.pattern)
    /\ scoreOut.status = "returned"
    /\ scoreOut.minConfidence = Num(6, 10)
    /\ JGeq(ScoredPattern(minerOut.pattern).scores.support, scoreOut.minSupport)
    /\ Len(scoreOut.input) = 3
    /\ scoreOut.input[1] = minerOut.pattern
    /\ Len(scoreOut.patterns) = 2

(***************************************************************************)
(* PatternScorer.validatePatterns                                          *)
(***************************************************************************)
\* !pattern.id: the id is missing or empty
Missing(text) == text = ""

\* the check of lift against confidence left out
validatePatternNoConsistencyCheck(pattern) ==
    IF Missing(pattern.id) \/ Missing(pattern.title) \/ Missing(pattern.description)
    THEN [isValid |-> FALSE, reason |-> "Missing required fields"]
    ELSE IF JLt(pattern.scores.confidence, Num(1, 10))
    THEN [isValid |-> FALSE, reason |-> "Confidence too low"]
    ELSE IF JLt(pattern.scores.support, Num(5, 100))
    THEN [isValid |-> FALSE, reason |-> "Support too low"]
    ELSE IF JLt(pattern.scores.overallScore, Num(3, 10))
    THEN [isValid |-> FALSE, reason |-> "Overall score too low"]
    ELSE [isValid |-> TRUE, reason |-> ""]

\* PatternScorer.validatePattern; reason is absent (here "") for a valid pattern
validatePattern(pattern) ==
    IF Missing(pattern.id) \/ Missing(pattern.title) \/ Missing(pattern.description)
    THEN [isValid |-> FALSE, reason |-> "Missing required fields"]
    ELSE IF JLt(pattern.scores.confidence, Num(1, 10))
    THEN [isValid |-> FALSE, reason |-> "Confidence too low"]
    ELSE IF JLt(pattern.scores.support, Num(5, 100))
    THEN [isValid |-> FALSE, reason |-> "Support too low"]
    ELSE IF JLt(pattern.scores.overallScore, Num(3, 10))
    THEN [isValid |-> FALSE, reason |-> "Overall score too low"]
    ELSE IF JLt(pattern.scores.lift, IntNum(1)) /\ JGt(pattern.scores.confidence, Num(8, 10))
    THEN [isValid |-> FALSE, reason |-> "Inconsistent lift and confidence"]
    ELSE [isValid |-> TRUE, reason |-> ""]

\* PatternScorer.validatePatterns: valid and invalid as the forEach fills them
RECURSIVE validatePatterns(_)
validatePatterns(input) ==
    IF input = <<>> THEN [valid |-> <<>>, invalid |-> <<>>]
    ELSE LET before == validatePatterns(SubSeq(input, 1, Len(input) - 1))
             pattern == input[Len(input)]
             validation == validatePattern(pattern)
         IN  IF validation.isValid
             THEN [before EXCEPT !.valid = Append(@, pattern)]
             ELSE [before EXCEPT !.invalid =
                      Append(@, [pattern |-> pattern, reason |-> validation.reason])]

MaxScored == 3       \* scored patterns handed to validatePatterns

\* a scored pattern with given scores
WithScores(id, title, description, confidence, support, overallScore, lift) ==
    [id |-> id, title |-> title, description |-> description, impact |-> IntNum(45),
     confidence |-> IntNum(90), complexity |-> "Low", variables |-> <<"x">>,
     scores |-> [patternId |-> id, support |-> support, confidence |-> confidence,
                 lift |-> lift, conviction |-> IntNum(1), impact |-> Num(45, 100),
                 complexity |-> Num(2, 10), overallScore |-> overallScore]]

\* patterns as the scorer makes them, patterns without a required field, and
\* patterns whose scores sit on, under and over each limit of validatePattern
ScoredPool ==
    { ScoredPattern(Candidate("p_strong", "Strong", "d", IntNum(45), IntNum(90), "Low", <<"x">>)),
      ScoredPattern(Candidate("p_weak", "Weak", "d", IntNum(0), IntNum(5), "Odd", TwelveVariables)),
      ScoredPattern(Candidate("p_full", "Full", "d", IntNum(100), IntNum(100), "Medium", <<>>)),
      ScoredPattern(Candidate("p_faint", "Faint", "d", IntNum(90), IntNum(20), "Low", <<>>)),
      WithScores("", "T", "d", Num(9, 10), Num(3, 10), Num(5, 10), IntNum(3)),
      WithScores("s_title", "", "d", Num(9, 10), Num(3, 10), Num(5, 10), IntNum(3)),
      WithScores("s_desc", "T", "", Num(5, 100), Num(3, 10), Num(5, 10), IntNum(3)),
      WithScores("s_limits", "T", "d", Num(1, 10), Num(5, 100), Num(3, 10), IntNum(2)),
      WithScores("s_support", "T", "d", Num(5, 10), Num(4, 100), Num(5, 10), IntNum(2)),
      WithScores("s_overall", "T", "d", Num(5, 10), Num(3, 10), Num(29, 100), IntNum(2)),
      WithScores("s_lift", "T", "d", Num(9, 10), Num(3, 10), Num(5, 10), Num(1, 2)),
      WithScores("s_lift_ok", "T", "d", Num(8, 10), Num(3, 10), Num(5, 10), Num(1, 2)) }

InitValidate ==
    /\ scoredPatterns \in SeqsUpTo(ScoredPool, MaxScored)
    /\ validationOut = [status |-> "none"]
    /\ candidates = <<>>
    /\ scoreOut = [status |-> "none"]
    /\ dataSources = <<>>
    /\ now = ClockStart
    /\ IdleMerger
    /\ IdleAnalyze
    /\ IdleMiner
    /\ IdleEncode
    /\ IdleJson
    /\ IdleCleaner
    /\ IdleDetect
    /\ IdleTemporal

\* a call of validatePatterns(scoredPatterns)
ValidatePatterns ==
    /\ validationOut.status = "none"
    /\ validationOut' = [status |-> "returned", input |-> scoredPatterns,
                         valid |-> validatePatterns(scoredPatterns).valid,
                         invalid |-> validatePatterns(scoredPatterns).invalid]
    /\ UNCHANGED <<mergerVars, analyzeVars, minerVars, encodeVars, jsonVars,
                   cleanerVars, detectVars, temporalVars, candidates, scoreOut, scoredPatterns>>

NextValidate == ValidatePatterns

SpecValidate == InitValidate /\ [][NextValidate]_vars

\* the conditions under which a pattern is to be reported invalid
IsInvalid(pattern) ==
    \/ pattern.id = "" \/ pattern.title = "" \/ pattern.description = ""
    \/ JLt(pattern.scores.confidence, Num(1, 10))
    \/ JLt(pattern.scores.support, Num(5, 100))
    \/ JLt(pattern.scores.overallScore, Num(3, 10))
    \/ (JLt(pattern.scores.lift, IntNum(1)) /\ JGt(pattern.scores.confidence, Num(8, 10)))

IsValidPattern(pattern) == ~IsInvalid(pattern)

\* C15: validatePatterns partitions its input: valid holds the patterns that
\* meet none of the invalidity conditions and invalid the others, each list in
\* input order and with the patterns unchanged, so |valid| + |invalid| =
\* |input|; every invalid entry carries a reason.
C15_ValidatePartitions ==
    validationOut.status = "returned" =>
        /\ Len(validationOut.valid) + Len(validationOut.invalid) = Len(validationOut.input)
        /\ validationOut.valid = SelectSeq(validationOut.input, IsValidPattern)
        /\ [i \in 1..Len(validationOut.invalid) |-> validationOut.invalid[i].pattern]
              = SelectSeq(validationOut.input, IsInvalid)
        /\ \A i \in 1..Len(validationOut.invalid) : validationOut.invalid[i].reason # ""

\* three different patterns validated: the middle one valid, the first invalid
\* for a missing field, the last for a lift under 1 with a confidence over 0.8
C15_Witness ==
    /\ validationOut.status = "returned"
    /\ Len(validationOut.input) = 3
    /\ Len(validationOut.valid) = 1
    /\ validationOut.valid[1] = validationOut.input[2]
    /\ Len(validationOut.invalid) = 2
    /\ validationOut.invalid[1].reason = "Missing required fields"
    /\ validationOut.invalid[2].reason = "Inconsistent lift and confidence"

(***************************************************************************)
(* PatternAnalysisAPI: the export/import boundary.                         *)
(*                                                                         *)
(* A JSON text is modelled by whether it is well formed and, if it is, by  *)
(* the JSON value it denotes.  A JSON value carries its kind: null, a      *)
(* number, a string, an array of values or an object of named values.      *)
(***************************************************************************)
JsonNull == [kind |-> "null"]
JsonNumber(v) == [kind |-> "number", value |-> v]
JsonString(s) == [kind |-> "string", s |-> s]
JsonArray(items) == [kind |-> "array", items |-> items]
JsonObject(fields) == [kind |-> "object", fields |-> fields]

JsonText(value) == [wellFormed |-> TRUE, value |-> value]
MalformedText == [wellFormed |-> FALSE, value |-> JsonNull]

\* a number written with toFixed(0): its fraction is lost
NumberToJsonFixed(v) == IF IsFinite(v) THEN JsonNumber(IntNum(v.n \div v.d)) ELSE JsonNull

\* JSON.stringify of a number: NaN and the infinities are written as null
NumberToJson(v) == IF IsFinite(v) THEN JsonNumber(v) ELSE JsonNull

StringsToJson(list) == JsonArray([i \in DOMAIN list |-> JsonString(list[i])])

\* JSON.stringify of a PatternScore
PatternScoreToJson(scores) ==
    JsonObject([patternId |-> JsonString(scores.patternId),
                support |-> NumberToJson(scores.support),
                confidence |-> NumberToJson(scores.confidence),
                lift |-> NumberToJson(scores.lift),
                conviction |-> NumberToJson(scores.conviction),
                impact |-> NumberToJson(scores.impact),
                complexity |-> NumberToJson(scores.complexity),
                overallScore |-> NumberToJson(scores.overallScore)])

\* JSON.stringify of a ScoredPattern
ScoredPatternToJson(pattern) ==
    JsonObject([id |-> JsonString(pattern.id),
                title |-> JsonString(pattern.title),
                description |-> JsonString(pattern.description),
                impact |-> NumberToJson(pattern.impact),
                confidence |-> NumberToJson(pattern.confidence),
                complexity |-> JsonString(pattern.complexity),
                variables |-> StringsToJson(pattern.variables),
                scores |-> PatternScoreToJson(pattern.scores)])

\* JSON.stringify({ patterns, exportMetadata: { exportedAt, totalPatterns, version } }, null, 2)
exportPatternsToJSON(list, t) ==
    JsonText(JsonObject(
        [patterns |-> JsonArray([i \in DOMAIN list |-> ScoredPatternToJson(list[i])]),
         exportMetadata |-> JsonObject([exportedAt |-> JsonString(ToISOString(t)),
                                        totalPatterns |-> NumberToJson(IntNum(Len(list))),
                                        version |-> JsonString("1.0.0")])]))

\* the value JSON.parse builds from a JSON value
RECURSIVE FromJson(_)
FromJson(json) ==
    CASE json.kind = "null" -> Null
      [] json.kind = "number" -> json.value
      [] json.kind = "string" -> json.s
      [] json.kind = "array" -> [i \in DOMAIN json.items |-> FromJson(json.items[i])]
      [] OTHER -> [k \in DOMAIN json.fields |-> FromJson(json.fields[k])]

\* the truthiness of the value JSON.parse builds
JsonTruthy(json) ==
    CASE json.kind = "null" -> FALSE
      [] json.kind = "number" -> Truthy(json.value)
      [] json.kind = "string" -> json.s # ""
      [] OTHER -> TRUE

ImportOutcome(status, text, error, value) ==
    [status |-> status, text |-> text, error |-> error, value |-> value]

\* JSON.parse(jsonData) then data.patterns || [], with no try/catch around them
importPatternsFromJSONUncaught(text) ==
    IF ~text.wellFormed THEN ImportOutcome("threw", text, "SyntaxError", <<>>)
    ELSE LET parsed == text.value
         IN  IF parsed.kind = "null"
             THEN ImportOutcome("threw", text, "TypeError", <<>>)
             ELSE IF /\ parsed.kind = "object"
                     /\ "patterns" \in DOMAIN parsed.fields
                     /\ JsonTruthy(parsed.fields.patterns)
                  THEN ImportOutcome("returned", text, "none", FromJson(parsed.fields.patterns))
                  ELSE ImportOutcome("returned", text, "none", <<>>)

\* try { data = JSON.parse(jsonData); return data.patterns || [] } catch { return [] }
importPatternsFromJSON(text) ==
    IF ~text.wellFormed THEN ImportOutcome("returned", text, "SyntaxError", <<>>)
    ELSE LET parsed == text.value
         IN  IF parsed.kind = "null"
             THEN ImportOutcome("returned", text, "TypeError", <<>>)
             ELSE IF /\ parsed.kind = "object"
                     /\ "patterns" \in DOMAIN parsed.fields
                     /\ JsonTruthy(parsed.fields.patterns)
                  THEN ImportOutcome("returned", text, "none", FromJson(parsed.fields.patterns))
                  ELSE ImportOutcome("returned", text, "none", <<>>)

MaxExport == 2       \* patterns in one exported list

\* scored patterns, one of them with a lift that is not a number and one with
\* an unbounded impact
ExportPool ==
    { ScoredPattern(Candidate("p_strong", "Strong", "d", IntNum(45), IntNum(90), "Low", <<"x">>)),
      ScoredPattern(Candidate("p_weak", "Weak", "", IntNum(0), IntNum(5), "Very High", <<"x", "y">>)),
      WithScores("s_third", "T", "d", Num(1, 3), Num(3, 10), Num(5, 10), IntNum(3)),
      WithScores("s_nan", "T", "d", Num(9, 10), Num(3, 10), Num(5, 10), NaN),
      [WithScores("s_inf", "T", "d", Num(9, 10), Num(3, 10), Num(5, 10), IntNum(2))
          EXCEPT !.impact = Inf(1)] }

\* the texts handed to importPatternsFromJSON
JsonTexts ==
    LET p == ScoredPatternToJson(
                 WithScores("s_third", "T", "d", Num(1, 3), Num(3, 10), Num(5, 10), IntNum(3)))
    IN  { MalformedText,
          JsonText(JsonNull),
          JsonText(JsonNumber(IntNum(7))),
          JsonText(JsonString("patterns")),
          JsonText(JsonArray(<<>>)),
          JsonText(JsonArray(<<p>>)),
          JsonText(JsonObject(EmptyObject)),
          JsonText(JsonObject([exportMetadata |-> JsonObject([version |-> JsonString("1.0.0")])])),
          JsonText(JsonObject([patterns |-> JsonNull])),
          JsonText(JsonObject([patterns |-> JsonNumber(IntNum(0))])),
          JsonText(JsonObject([patterns |-> JsonString("")])),
          JsonText(JsonObject([patterns |-> JsonArray(<<>>)])),
          JsonText(JsonObject([patterns |-> JsonArray(<<p>>)])),
          JsonText(JsonObject([patterns |-> JsonString("abc")])),
          JsonText(JsonObject([patterns |-> JsonObject([id |-> JsonString("p")])])) }

InitJson ==
    /\ exported \in SeqsUpTo(ExportPool, MaxExport)
    /\ jsonData \in JsonTexts
    /\ imported = [status |-> "none"]
    /\ dataSources = <<>>
    /\ now = ClockStart
    /\ IdleMerger
    /\ IdleAnalyze
    /\ IdleMiner
    /\ IdleEncode
    /\ IdleScorer
    /\ IdleCleaner
    /\ IdleDetect
    /\ IdleTemporal

\* a call of exportPatternsToJSON(exported); its result is the next text read
ExportPatternsToJSON ==
    /\ \E t \in ClockStart..(ClockStart + MaxTick) :
          jsonData' = exportPatternsToJSON(exported, t)
    /\ UNCHANGED <<mergerVars, analyzeVars, minerVars, encodeVars, scorerVars,
                   cleanerVars, detectVars, temporalVars, exported, imported>>

\* a call of importPatternsFromJSON(jsonData)
ImportPatternsFromJSON ==
    /\ imported' = importPatternsFromJSON(jsonData)
    /\ UNCHANGED <<mergerVars, analyzeVars, minerVars, encodeVars, scorerVars,
                   cleanerVars, detectVars, temporalVars, exported, jsonData>>

NextJson ==
    \/ ExportPatternsToJSON
    \/ ImportPatternsFromJSON

SpecJson == InitJson /\ [][NextJson]_vars

\* every number of the pattern is a finite number, hence has a JSON form
AllNumbersFinite(pattern) ==
    /\ IsFinite(pattern.impact)
    /\ IsFinite(pattern.confidence)
    /\ \A k \in DOMAIN pattern.scores \ {"patternId"} : IsFinite(pattern.scores[k])

\* imported holds what importPatternsFromJSON made of an export of `exported`
ImportedAnExport ==
    /\ imported.status # "none"
    /\ \E t \in ClockStart..(ClockStart + MaxTick) :
          imported.text = exportPatternsToJSON(exported, t)

NoPatternsField(text) ==
    \/ ~text.wellFormed
    \/ text.value.kind # "object"
    \/ "patterns" \notin DOMAIN text.value.fields

C17_ImportNeverThrows ==
    imported.status # "none"
        => /\ imported.status = "returned"
           /\ NoPatternsField(imported.text) => imported.value = <<>>

C17_Witness ==
    /\ imported.status = "returned"
    /\ imported.error = "TypeError"
    /\ imported.text = JsonText(JsonNull)
    /\ imported.value = <<>>

(***************************************************************************)
(* DataCleaner: column statistics and binning.                             *)
(***************************************************************************)
\* parseFloat on the strings of the model: the longest numeric prefix, or NaN
parseFloat(s) ==
    CASE s = "30" -> IntNum(30)
      [] s = "7px" -> IntNum(7)
      [] s \in {"2024-01-15", "2024-01-01"} -> IntNum(2024)
      [] OTHER -> NaN

IsNumberTyped(value) == value.t \in {"num", "nan", "inf"}

\* DataCleaner.isNumericValue
isNumericValue(value) ==
    IF IsNumberTyped(value) THEN TRUE
    ELSE IF value.t = "str"
         THEN LET num == parseFloat(value.s) IN num.t # "nan" /\ IsFinite(num)
         ELSE FALSE

\* DataCleaner.parseNumeric: the number, or null
parseNumeric(value) ==
    IF IsNumberTyped(value) THEN value
    ELSE IF value.t = "str"
         THEN LET num == parseFloat(value.s) IN IF num.t = "nan" THEN Null ELSE num
         ELSE Null

\* Math.sqrt(x) of a number x >= 0, kept exact as the root of x
SqrtOf(x) == [sq |-> x]

RECURSIVE JSumSeq(_)
JSumSeq(values) ==
    IF values = <<>> THEN IntNum(0) ELSE JAdd(Head(values), JSumSeq(Tail(values)))

\* Math.min(...values), Math.max(...values) of a non-empty list
RECURSIVE JMinSeq(_)
JMinSeq(values) ==
    IF Len(values) = 1 THEN Head(values) ELSE JMin(Head(values), JMinSeq(Tail(values)))

RECURSIVE JMaxSeq(_)
JMaxSeq(values) ==
    IF Len(values) = 1 THEN Head(values) ELSE JMax(Head(values), JMaxSeq(Tail(values)))

\* the numeric values of a column: map(record[columnName]).filter(isNumericValue).map(parseNumeric)
NumericValuesOf(records, columnName) ==
    LET raw == [i \in DOMAIN records |-> Get(records[i], columnName)]
        kept == SelectSeq(raw, isNumericValue)
    IN  [i \in DOMAIN kept |-> parseNumeric(kept[i])]

\* DataCleaner.getColumnStats
getColumnStats(records, columnName) ==
    LET values == NumericValuesOf(records, columnName)
    IN  IF Len(values) = 0
        THEN [min |-> IntNum(0), max |-> IntNum(0), mean |-> IntNum(0),
              std |-> SqrtOf(IntNum(1))]
        ELSE LET mean == JDiv(JSumSeq(values), IntNum(Len(values)))
                 squares == [i \in DOMAIN values |->
                                JMul(JSub(values[i], mean), JSub(values[i], mean))]
                 variance == JDiv(JSumSeq(squares), IntNum(Len(values)))
             IN  [min |-> JMinSeq(values), max |-> JMaxSeq(values), mean |-> mean,
                  std |-> SqrtOf(variance)]

\* k >= range / std for a range > 0 and a finite std > 0: k^2 * std^2 >= range^2
AtLeastRangeOverStd(k, range, std) ==
    JGeq(JMul(IntNum(k * k), std.sq), JMul(range, range))

\* Math.min(maxBins, Math.ceil(range / std) || 5) for a range >= 0, a finite
\* std >= 0 and a whole maxBins: 0 / std is 0 or NaN and gives 5, range / 0 is
\* Infinity and gives maxBins
BinsOf(maxBins, range, std) ==
    IF range.n = 0 THEN (IF maxBins < 5 THEN maxBins ELSE 5)
    ELSE IF std.sq.n = 0 THEN maxBins
    ELSE LET within == {k \in 1..maxBins : AtLeastRangeOverStd(k, range, std)}
         IN  IF within = {} THEN maxBins
             ELSE CHOOSE k \in within : \A other \in within : k <= other

\* the loop of discretizeValue: the label of the first bin that holds the value
BinLabel(value, stats, maxBins) ==
    LET range == JSub(stats.max, stats.min)
        bins == BinsOf(maxBins, range, stats.std)
        binSize == JDiv(range, IntNum(bins))
        binStart(i) == JAdd(stats.min, JMul(IntNum(i), binSize))
        binEnd(i) == JAdd(stats.min, JMul(IntNum(i + 1), binSize))
        holding == {i \in 0..(bins - 1) :
                       JGeq(value, binStart(i)) /\ JLeq(value, binEnd(i))}
    IN  IF holding = {} THEN "bin_" \o ToString(bins)
        ELSE "bin_" \o ToString((CHOOSE i \in holding : \A other \in holding : i <= other) + 1)

\* discretizeValue without its test of the range
discretizeValueNoRangeTest(value, stats, maxBins) == BinLabel(value, stats, maxBins)

\* DataCleaner.discretizeValue
discretizeValue(value, stats, maxBins) ==
    IF JEq(JSub(stats.max, stats.min), IntNum(0)) THEN "constant"
    ELSE BinLabel(value, stats, maxBins)

\* value.trim().toLowerCase() on the strings of the model
TrimLower(s) ==
    CASE s = " A " -> "a"
      [] s = "B" -> "b"
      [] OTHER -> s

\* DataCleaner.cleanCategoricalValue
cleanCategoricalValue(value) ==
    IF value.t = "str" THEN Str(TrimLower(value.s)) ELSE Str(TrimLower(ValueToString(value)))

DefaultConfig ==
    [dateColumns |-> <<>>, numericColumns |-> <<>>, categoricalColumns |-> <<>>,
     maxBins |-> 5, dateThreshold |-> 20]

\* list.push(name) unless list.includes(name)
PushIfAbsent(list, name) ==
    IF \E i \in DOMAIN list : list[i] = name THEN list ELSE Append(list, name)

\* the columnTypes.forEach of cleanAndTransformData
RECURSIVE AddDetectedColumns(_, _)
AddDetectedColumns(config, columnTypes) ==
    IF columnTypes = <<>> THEN config
    ELSE LET colType == Head(columnTypes)
             next ==
                 IF ~JGt(colType.confidence, Num(7, 10)) THEN config
                 ELSE CASE colType.type = "date" ->
                             [config EXCEPT !.dateColumns = PushIfAbsent(@, colType.name)]
                        [] colType.type = "numeric" ->
                             [config EXCEPT !.numericColumns = PushIfAbsent(@, colType.name)]
                        [] colType.type = "categorical" ->
                             [config EXCEPT !.categoricalColumns = PushIfAbsent(@, colType.name)]
                        [] OTHER -> config
         IN  AddDetectedColumns(next, Tail(columnTypes))

\* { ...defaultConfig, ...config } then the columns detected with confidence > 0.7
FinalConfig(columnTypes, config) ==
    AddDetectedColumns(
        [k \in DOMAIN DefaultConfig |-> IF k \in DOMAIN config THEN config[k] ELSE DefaultConfig[k]],
        columnTypes)

\* the numeric columns of a record whose value is given and parses:
\* cleanedRecord[col] !== undefined && !== null, parseNumeric(...) !== null
ParsesAsNumber(record, numericCol) ==
    /\ Get(record, numericCol).t \notin {"undef", "null"}
    /\ parseNumeric(Get(record, numericCol)) # Null

\* the categorical columns of a record, cleaned
CleanCategoricalColumns(record, categoricalColumns) ==
    [k \in DOMAIN record |->
        IF /\ \E i \in DOMAIN categoricalColumns : categoricalColumns[i] = k
           /\ record[k].t \notin {"undef", "null"}
        THEN cleanCategoricalValue(record[k])
        ELSE record[k]]

\* new Date(value) is a valid date, on the strings of the model
ParsesAsDate(s) == s \in {"2024-01-15", "2024-01-01"}

\* the Date that new Date(s) builds
DateOf(s) == Obj("Date:" \o s)

IsDateObject(value) ==
    value.t = "obj" /\ value.s \in {"Date", "Date:2024-01-15", "Date:2024-01-01"}

\* DataCleaner.parseDate: the Date, or null
cleanerParseDate(value) ==
    IF IsDateObject(value) THEN value
    ELSE IF value.t = "str"
         THEN (IF ParsesAsDate(value.s) THEN DateOf(value.s) ELSE Null)
         ELSE Null

\* the time zones of the host: getFullYear, getMonth and getDay read the date
\* in local time, and a date-only string is midnight UTC
TimeZones == {"utc", "west"}

\* getFullYear(), getMonth() and getDay() of the dates of the model.  West of
\* Greenwich midnight UTC is the evening before: 2024-01-01, a Monday, is
\* Sunday 2023-12-31 there.  The Date of the model's inputs is noon of
\* Sunday 2024-06-30 in both zones.
LocalFields(date, zone) ==
    CASE date.s = "Date:2024-01-15" ->
            IF zone = "utc" THEN [fullYear |-> 2024, month |-> 0, day |-> 1]
            ELSE [fullYear |-> 2024, month |-> 0, day |-> 0]
      [] date.s = "Date:2024-01-01" ->
            IF zone = "utc" THEN [fullYear |-> 2024, month |-> 0, day |-> 1]
            ELSE [fullYear |-> 2023, month |-> 11, day |-> 0]
      [] OTHER -> [fullYear |-> 2024, month |-> 5, day |-> 0]

\* Math.ceil(n / 3) of a whole n >= 1
CeilThird(n) == (n + 2) \div 3

\* the body of config.dateColumns.forEach for one column
CleanDateColumn(record, dateCol, zone) ==
    IF ~Truthy(Get(record, dateCol)) THEN record
    ELSE LET parsedDate == cleanerParseDate(record[dateCol])
         IN  IF parsedDate = Null THEN record
             ELSE LET local == LocalFields(parsedDate, zone)
                      derived == {dateCol \o "_year", dateCol \o "_month",
                                  dateCol \o "_quarter", dateCol \o "_dayofweek"}
                  IN  [k \in DOMAIN record \cup derived |->
                          CASE k = dateCol \o "_year" -> IntNum(local.fullYear)
                            [] k = dateCol \o "_month" -> IntNum(local.month + 1)
                            [] k = dateCol \o "_quarter" -> IntNum(CeilThird(local.month + 1))
                            [] k = dateCol \o "_dayofweek" -> IntNum(local.day)
                            [] k = dateCol -> parsedDate
                            [] OTHER -> record[k]]

\* config.dateColumns.forEach
RECURSIVE CleanDateColumns(_, _, _)
CleanDateColumns(record, dateColumns, zone) ==
    IF dateColumns = <<>> THEN record
    ELSE CleanDateColumns(CleanDateColumn(record, Head(dateColumns), zone),
                          Tail(dateColumns), zone)

\* DataCleaner.cleanRecord.  A numeric column whose value parses reaches the
\* call of discretizeValue, whose argument reads `cleanedData`: no such name
\* is in scope of cleanRecord, and the read raises a ReferenceError
cleanRecord(record, config, zone) ==
    LET dated == CleanDateColumns(record, config.dateColumns, zone)
    IN  IF \E i \in DOMAIN config.numericColumns :
              ParsesAsNumber(dated, config.numericColumns[i])
        THEN [status |-> "threw", error |-> "ReferenceError"]
        ELSE [status |-> "returned",
              record |-> CleanCategoricalColumns(dated, config.categoricalColumns)]

\* DataCleaner.cleanAndTransformData: data.map(record => cleanRecord(record, finalConfig))
cleanAndTransformData(records, columnTypes, config, zone) ==
    LET finalConfig == FinalConfig(columnTypes, config)
        cleaned == [i \in DOMAIN records |-> cleanRecord(records[i], finalConfig, zone)]
    IN  IF \E i \in DOMAIN cleaned : cleaned[i].status = "threw"
        THEN [status |-> "threw", error |-> "ReferenceError", records |-> <<>>]
        ELSE [status |-> "returned", error |-> "none",
              records |-> [i \in DOMAIN cleaned |-> cleaned[i].record]]

MaxClean == 2        \* records in one cleaned data set

\* records with a numeric column `amount` (a number, a numeric string, a
\* string that is no number, null or absent) and a categorical column `label`
CleanerRecords ==
    { [amount |-> IntNum(10), label |-> Str(" A ")],
      [amount |-> IntNum(20), label |-> Str("B")],
      [amount |-> IntNum(50), label |-> Str("B")],
      [amount |-> Str("30"), label |-> Str(" A ")],
      [amount |-> Str("abc"), label |-> Str("B")],
      [amount |-> Null, label |-> Null] }

\* the column [10, 20, 30, 40, 50]
FiveAmounts ==
    << [amount |-> IntNum(10)], [amount |-> IntNum(20)], [amount |-> IntNum(30)],
       [amount |-> IntNum(40)], [amount |-> IntNum(50)] >>

\* the column [10, 20, 50] followed by a value that is no number
SkewedAmounts ==
    << [amount |-> IntNum(10), label |-> Str("B")], [amount |-> IntNum(20), label |-> Str("B")],
       [amount |-> IntNum(50), label |-> Str(" A ")], [amount |-> Str("abc"), label |-> Str("B")] >>

\* a data set whose second record has no amount
AmountAbsent == << [amount |-> Str("7px"), label |-> Str("B")], [label |-> Str(" A ")] >>

\* a date column `when`: a date string, a string that is no date, a Date, null
DatedRecords ==
    << [when |-> Str("2024-01-01"), label |-> Str(" A ")],
       [when |-> Str("abc"), label |-> Str("B")],
       [when |-> Obj("Date"), label |-> Str("B")],
       [when |-> Null, label |-> Str(" A ")] >>

\* a date column next to a numeric column
DatedAmounts ==
    << [when |-> Str("abc"), amount |-> IntNum(10)],
       [when |-> Str("2024-01-15"), amount |-> Null] >>

ColumnTypeOf(name, type, confidence) == [name |-> name, type |-> type, confidence |-> confidence]

\* the column types and the config of a call, and the time zone of the host
CleanerSetups ==
    { [columnTypes |-> <<ColumnTypeOf("amount", "numeric", Num(9, 10))>>,
       config |-> EmptyObject, zone |-> "utc"],
      [columnTypes |-> <<ColumnTypeOf("amount", "numeric", Num(7, 10)),
                         ColumnTypeOf("label", "categorical", Num(8, 10))>>,
       config |-> EmptyObject, zone |-> "utc"],
      [columnTypes |-> <<ColumnTypeOf("label", "text", Num(1, 10))>>,
       config |-> [numericColumns |-> <<"amount">>, maxBins |-> 3], zone |-> "utc"],
      [columnTypes |-> <<ColumnTypeOf("when", "date", Num(9, 10))>>,
       config |-> EmptyObject, zone |-> "utc"],
      [columnTypes |-> <<ColumnTypeOf("when", "date", Num(9, 10))>>,
       config |-> EmptyObject, zone |-> "west"],
      [columnTypes |-> <<ColumnTypeOf("when", "date", Num(9, 10)),
                         ColumnTypeOf("amount", "numeric", Num(9, 10))>>,
       config |-> [dateColumns |-> <<>>, numericColumns |-> <<>>,
                   categoricalColumns |-> <<"label">>],
       zone |-> "utc"] }

\* the values and the bin limits handed to discretizeValue
BinProbes == {IntNum(10), IntNum(20), IntNum(25), IntNum(30), IntNum(50), Num(70, 3)}
MaxBinsValues == {1, 2, 5}

InitCleaner ==
    /\ \E records \in SeqsUpTo(CleanerRecords, MaxClean)
                          \cup {FiveAmounts, SkewedAmounts, AmountAbsent,
                                DatedRecords, DatedAmounts} :
       \E setup \in CleanerSetups :
          cleanerInput = [status |-> "given", data |-> records,
                          columnTypes |-> setup.columnTypes, config |-> setup.config,
                          configGiven |-> setup.config, zone |-> setup.zone]
    /\ binOut = [status |-> "none"]
    /\ cleanOut = [status |-> "none"]
    /\ dataSources = <<>>
    /\ now = ClockStart
    /\ IdleMerger
    /\ IdleAnalyze
    /\ IdleMiner
    /\ IdleEncode
    /\ IdleScorer
    /\ IdleJson
    /\ IdleDetect
    /\ IdleTemporal

\* a call of discretizeValue(value, getColumnStats(data, 'amount'), maxBins)
\* for a value between the column's min and max
DiscretizeValue ==
    /\ \E value \in BinProbes, maxBins \in MaxBinsValues :
          LET stats == getColumnStats(cleanerInput.data, "amount")
          IN  /\ JLeq(stats.min, value)
              /\ JLeq(value, stats.max)
              /\ binOut' = [status |-> "returned", value |-> value, maxBins |-> maxBins,
                            label |-> discretizeValue(value, stats, maxBins)]
    /\ UNCHANGED <<mergerVars, analyzeVars, minerVars, encodeVars, scorerVars, jsonVars,
                   detectVars, temporalVars, cleanerInput, cleanOut>>

\* the caller's config object after a call: { ...defaultConfig, ...config }
\* copies the references of the caller's lists, so the push of a detected
\* column lands in the caller's own list
ConfigAfterCall(columnTypes, config) ==
    LET finalConfig == FinalConfig(columnTypes, config)
    IN  [k \in DOMAIN config |->
            IF k \in {"dateColumns", "numericColumns", "categoricalColumns"}
            THEN finalConfig[k] ELSE config[k]]

\* a call of cleanAndTransformData(data, columnTypes, config) with the config
\* object the caller holds
CleanAndTransformData ==
    /\ cleanOut' = cleanAndTransformData(cleanerInput.data, cleanerInput.columnTypes,
                                         cleanerInput.config, cleanerInput.zone)
    /\ cleanerInput' = [cleanerInput EXCEPT
                           !.config = ConfigAfterCall(cleanerInput.columnTypes, @)]
    /\ UNCHANGED <<mergerVars, analyzeVars, minerVars, encodeVars, scorerVars, jsonVars,
                   detectVars, temporalVars, binOut>>

NextCleaner ==
    \/ DiscretizeValue
    \/ CleanAndTransformData

SpecCleaner == InitCleaner /\ [][NextCleaner]_vars

\* bins is min(maxBins, ceil(range / std)) for a range > 0: it is at most
\* maxBins, bins - 1 is under range / std, and bins reaches range / std unless
\* maxBins cuts it
IsBinCount(bins, maxBins, range, std) ==
    /\ bins \in 1..maxBins
    /\ bins > 1 => JLt(JMul(IntNum((bins - 1) * (bins - 1)), std.sq), JMul(range, range))
    /\ \/ bins = maxBins
       \/ JGeq(JMul(IntNum(bins * bins), std.sq), JMul(range, range))

\* value lies in [min + (i-1) * range / bins, min + i * range / bins]
InInterval(value, i, bins, stats) ==
    LET range == JSub(stats.max, stats.min)
    IN  /\ JGeq(value, JAdd(stats.min, JDiv(JMul(IntNum(i - 1), range), IntNum(bins))))
        /\ JLeq(value, JAdd(stats.min, JDiv(JMul(IntNum(i), range), IntNum(bins))))

\* C18: for a value between min and max, discretizeValue returns 'constant'
\* exactly when max = min, and otherwise 'bin_i' with 1 <= i <= bins for
\* bins = min(maxBins, ceil(range / std) or 5), the value lying in the i-th
\* interval of width range / bins
C18_BinningTotal ==
    binOut.status = "returned" =>
        LET stats == getColumnStats(cleanerInput.data, "amount")
            range == JSub(stats.max, stats.min)
        IN  IF JEq(stats.max, stats.min) THEN binOut.label = "constant"
            ELSE /\ binOut.label # "constant"
                 /\ \E bins \in 1..binOut.maxBins :
                       /\ IsBinCount(bins, binOut.maxBins, range, stats.std)
                       /\ \E i \in 1..bins :
                             /\ binOut.label = "bin_" \o ToString(i)
                             /\ InInterval(binOut.value, i, bins, stats)

\* the column [10, 20, 30, 40, 50] with maxBins = 5 has 3 bins, and 25 is in
\* the second of them
C18_Witness ==
    /\ cleanerInput.data = FiveAmounts
    /\ binOut.status = "returned"
    /\ binOut.maxBins = 5
    /\ binOut.value = IntNum(25)
    /\ binOut.label = "bin_2"
    /\ BinsOf(5, IntNum(40), getColumnStats(FiveAmounts, "amount").std) = 3

\* the value of a date column that cleanRecord converts: truthy and a date
ParsesAsDateValue(record, dateCol) ==
    /\ Truthy(Get(record, dateCol))
    /\ cleanerParseDate(Get(record, dateCol)) # Null

DerivedDateFields(dateCol) ==
    {dateCol \o "_year", dateCol \o "_month", dateCol \o "_quarter", dateCol \o "_dayofweek"}

\* C21: cleanRecord gives a record whose date column parses the fields
\* {col}_year, {col}_month in 1..12, {col}_quarter = ceil(month / 3) in 1..4
\* and {col}_dayofweek in 0..6; a value that does not parse is kept, without
\* any of the four fields, and all other fields and records are processed
DateColumnsOf(input) == FinalConfig(input.columnTypes, input.configGiven).dateColumns

C21_DatePartsOrUntouched ==
    (cleanOut.status # "none" /\ DateColumnsOf(cleanerInput) # <<>>) =>
        /\ cleanOut.status = "returned"
        /\ LET columns == DateColumnsOf(cleanerInput)
           IN  \A i \in DOMAIN cleanerInput.data : \A c \in DOMAIN columns :
                  LET before == cleanerInput.data[i]
                      after == cleanOut.records[i]
                      col == columns[c]
                  IN  IF ParsesAsDateValue(before, col)
                      THEN /\ DerivedDateFields(col) \subseteq DOMAIN after
                           /\ after[col \o "_month"].n \in 1..12
                           /\ after[col \o "_quarter"].n = CeilThird(after[col \o "_month"].n)
                           /\ after[col \o "_quarter"].n \in 1..4
                           /\ after[col \o "_dayofweek"].n \in 0..6
                      ELSE /\ Get(after, col) = Get(before, col)
                           /\ DerivedDateFields(col) \cap DOMAIN after = {}

\* the numeric columns of the call: those of the config and those detected
NumericColumnsOf(input) == FinalConfig(input.columnTypes, input.config).numericColumns

\* C19: cleanAndTransformData completes without raising, and every record
\* whose value in a numeric column parses as a number gets a {col}_bin label
\* computed from the statistics of that column over the whole input
C19_CleanLabelsEveryNumber ==
    cleanOut.status # "none" =>
        /\ cleanOut.status = "returned"
        /\ LET columns == NumericColumnsOf(cleanerInput)
               maxBins == FinalConfig(cleanerInput.columnTypes, cleanerInput.config).maxBins
           IN  \A i \in DOMAIN cleanerInput.data : \A c \in DOMAIN columns :
                  ParsesAsNumber(cleanerInput.data[i], columns[c]) =>
                      Get(cleanOut.records[i], columns[c] \o "_bin") =
                          Str(discretizeValue(parseNumeric(Get(cleanerInput.data[i], columns[c])),
                                              getColumnStats(cleanerInput.data, columns[c]),
                                              maxBins))

(***************************************************************************)
(* DataCleaner: the detection of a column's type.                          *)
(***************************************************************************)
SampleLimit == 100   \* Math.min(values.length, 100)

\* DataCleaner.isDateValue: a Date, or a string that parses as a date
isDateValue(value) ==
    IF value.t = "obj" /\ value.s = "Date" THEN TRUE
    ELSE IF value.t = "str" THEN ParsesAsDate(value.s)
    ELSE FALSE

\* value.toLowerCase() on the strings of the model
ToLowerCase(s) == IF s = "YES" THEN "yes" ELSE s

\* DataCleaner.isBooleanValue (the model has no value of type boolean)
isBooleanValue(value) ==
    IF value.t = "str"
    THEN ToLowerCase(value.s) \in {"true", "false", "yes", "no", "1", "0"}
    ELSE FALSE

\* new Set(sample).size: equal primitives are one member, every object is its own
UniqueValues(sample) ==
    Cardinality({sample[i] : i \in {j \in DOMAIN sample : sample[j].t # "obj"}})
        + Cardinality({i \in DOMAIN sample : sample[i].t = "obj"})

TypeConfidence(type, confidence) == [type |-> type, confidence |-> confidence]

\* confidences.reduce((best, current) => current.confidence >= best.confidence ? current : best)
RECURSIVE ReduceBestOrLater(_, _)
ReduceBestOrLater(best, rest) ==
    IF rest = <<>> THEN best
    ELSE ReduceBestOrLater(IF JGeq(Head(rest).confidence, best.confidence) THEN Head(rest) ELSE best,
                           Tail(rest))

\* confidences.reduce((best, current) => current.confidence > best.confidence ? current : best)
RECURSIVE ReduceBest(_, _)
ReduceBest(best, rest) ==
    IF rest = <<>> THEN best
    ELSE ReduceBest(IF JGt(Head(rest).confidence, best.confidence) THEN Head(rest) ELSE best,
                    Tail(rest))

\* the values of the column with only the absent ones dropped
NonNullValuesOfKeepingNull(records, columnName) ==
    SelectSeq([i \in DOMAIN records |-> Get(records[i], columnName)],
              LAMBDA val : val.t # "undef")


\* data.map(record => record[columnName]).filter(val => val !== undefined && val !== null)
NonNullValuesOf(records, columnName) ==
    SelectSeq([i \in DOMAIN records |-> Get(records[i], columnName)],
              LAMBDA val : val.t \notin {"undef", "null"})

\* DataCleaner.detectColumnType
detectColumnType(records, columnName) ==
    LET values == NonNullValuesOf(records, columnName)
    IN  IF Len(values) = 0 THEN TypeConfidence("text", IntNum(0))
        ELSE LET sampleSize == IF Len(values) < SampleLimit THEN Len(values) ELSE SampleLimit
                 sample == SubSeq(values, 1, sampleSize)
                 dateMatches == Cardinality({i \in DOMAIN sample : isDateValue(sample[i])})
                 dateConfidence == Num(dateMatches, sampleSize)
                 numericMatches == Cardinality({i \in DOMAIN sample : isNumericValue(sample[i])})
                 numericConfidence == Num(numericMatches, sampleSize)
                 booleanMatches == Cardinality({i \in DOMAIN sample : isBooleanValue(sample[i])})
                 booleanConfidence == Num(booleanMatches, sampleSize)
                 uniqueValues == UniqueValues(sample)
                 categoricalConfidence ==
                     IF JLeq(IntNum(uniqueValues),
                             JMin(IntNum(20), JMul(IntNum(sampleSize), Num(3, 10))))
                     THEN Num(8, 10) ELSE Num(2, 10)
                 confidences == << TypeConfidence("date", dateConfidence),
                                   TypeConfidence("numeric", numericConfidence),
                                   TypeConfidence("boolean", booleanConfidence),
                                   TypeConfidence("categorical", categoricalConfidence),
                                   TypeConfidence("text", Num(1, 10)) >>
             IN  ReduceBest(Head(confidences), Tail(confidences))

MaxBlocks == 2       \* runs of equal values in one column

\* the values of a column: numbers, a date string, boolean words, a plain
\* word, a Date object, null and an absent field
ColumnValues ==
    {IntNum(5), IntNum(6), Str("2024-01-15"), Str("yes"), Str("YES"), Str("abc"),
     Obj("Date"), Null, Undefined}

\* the lengths of the runs: around the limit of the sample
RunLengths == {1, 3, 99, 100}

Run(value, count) == [value |-> value, count |-> count]

\* the records of a column given by its runs; an absent field is no field
RECURSIVE Expand(_)
Expand(blocks) ==
    IF blocks = <<>> THEN <<>>
    ELSE LET run == Head(blocks)
             record == IF run.value = Undefined THEN EmptyObject ELSE [value |-> run.value]
         IN  [i \in 1..run.count |-> record] \o Expand(Tail(blocks))

\* columns of three runs: nulls first, a sample that is full, a tail beyond it
LongColumns ==
    { << Run(Null, 3), Run(IntNum(5), 100), Run(Str("abc"), 3) >>,
      << Run(Str("yes"), 99), Run(Undefined, 1), Run(IntNum(6), 3) >>,
      << Run(IntNum(5), 1), Run(IntNum(6), 1), Run(Str("abc"), 1) >> }

InitDetect ==
    /\ columnInput \in
          SeqsUpTo({Run(v, c) : v \in ColumnValues, c \in RunLengths}, MaxBlocks)
              \cup LongColumns
    /\ typeOut = [status |-> "none"]
    /\ dataSources = <<>>
    /\ now = ClockStart
    /\ IdleMerger
    /\ IdleAnalyze
    /\ IdleMiner
    /\ IdleEncode
    /\ IdleScorer
    /\ IdleJson
    /\ IdleCleaner
    /\ IdleTemporal

\* a call of detectColumnType(data, 'value')
DetectColumnType ==
    /\ typeOut' = [status |-> "returned",
                   result |-> detectColumnType(Expand(columnInput), "value")]
    /\ UNCHANGED <<mergerVars, analyzeVars, minerVars, encodeVars, scorerVars, jsonVars,
                   cleanerVars, temporalVars, columnInput>>

NextDetect == DetectColumnType

SpecDetect == InitDetect /\ [][NextDetect]_vars

\* the first 100 values of the column that are neither null nor absent
SampleOf(column) ==
    LET values == NonNullValuesOf(column, "value")
    IN  SubSeq(values, 1, IF Len(values) < SampleLimit THEN Len(values) ELSE SampleLimit)

\* the confidence of each type, in the order date, numeric, boolean,
\* categorical, text
ConfidencesOf(sample) ==
    LET size == Len(sample)
        share(Test(_)) == Num(Cardinality({i \in 1..size : Test(sample[i])}), size)
    IN  << share(isDateValue), share(isNumericValue), share(isBooleanValue),
           IF 10 * UniqueValues(sample) <= 3 * size /\ UniqueValues(sample) <= 20
           THEN Num(8, 10) ELSE Num(2, 10),
           Num(1, 10) >>

TypeOrder == <<"date", "numeric", "boolean", "categorical", "text">>

\* C20: detectColumnType returns the type of maximum confidence among date,
\* numeric, boolean, categorical and text, the earliest of them on a tie; a
\* column without a value gives text with confidence 0; the values after the
\* first 100 that are not null do not change the result
C20_BestTypeOfSample ==
    typeOut.status = "returned" =>
        LET column == Expand(columnInput)
            sample == SampleOf(column)
        IN  IF sample = <<>>
            THEN typeOut.result = TypeConfidence("text", IntNum(0))
            ELSE LET confidence == ConfidencesOf(sample)
                     best == CHOOSE i \in 1..5 :
                                 /\ \A j \in 1..5 : JGeq(confidence[i], confidence[j])
                                 /\ \A j \in 1..(i - 1) : JLt(confidence[j], confidence[i])
                 IN  /\ typeOut.result = TypeConfidence(TypeOrder[best], confidence[best])
                     /\ typeOut.result =
                            detectColumnType([i \in DOMAIN sample |-> [value |-> sample[i]]], "value")

\* a column of more than 100 values whose first 100 hold a tie of date and
\* numeric, decided for date
C20_Witness ==
    /\ typeOut.status = "returned"
    /\ columnInput = << Run(Str("2024-01-15"), 100), Run(Str("abc"), 3) >>
    /\ typeOut.result = TypeConfidence("date", IntNum(1))

\* |Holding(antecedent and consequent)| / |Holding(antecedent)| >= minConfidence,
\* in integers
ConfidenceAtLeast(transactions, antecedent, consequent, minConfidence) ==
    Cardinality(Holding(transactions, antecedent \cup consequent)) * minConfidence.d
        >= minConfidence.n * Cardinality(Holding(transactions, antecedent))

\* the directions a -> b of the frequent pairs whose confidence reaches minConfidence
ExpectedRules(out) ==
    {pair \in ItemsOf(out.transactions) \X ItemsOf(out.transactions) :
        /\ pair[1] # pair[2]
        /\ SupportAtLeast(out.transactions, {pair[1], pair[2]}, out.minSupport)
        /\ ConfidenceAtLeast(out.transactions, {pair[1]}, {pair[2]}, out.minConfidence)}

\* C22: detectAssociationRules returns exactly the rules a -> b and b -> a of
\* the frequent pairs {a, b} whose confidence is >= minConfidence, each once,
\* sorted by non-increasing lift; if some direction of a frequent pair reaches
\* minConfidence the result is not empty
C22_RulesOfFrequentPairs ==
    minerOut.status = "returned" =>
        LET returned == minerOut.rules
            expected == ExpectedRules(minerOut)
        IN  /\ {<<returned[i].antecedent, returned[i].consequent>> : i \in 1..Len(returned)}
                  = {<< <<pair[1]>>, <<pair[2]>> >> : pair \in expected}
            /\ Len(returned) = Cardinality(expected)
            /\ \A i, j \in 1..Len(returned) :
                  i < j => JGeq(returned[i].lift, returned[j].lift)
            /\ expected # {} => returned # <<>>

(***************************************************************************)
(* TemporalPatternMiner                                                    *)
(***************************************************************************)
\* the date strings of the model: getMonth() and the order of getTime().  The
\* days are far from the ends of their months, so that the month is the same
\* in every time zone.
TemporalDates ==
    [s \in {"2024-01-15", "2024-02-10", "2024-04-05"} |->
        CASE s = "2024-01-15" -> [month |-> 0, time |-> 15]
          [] s = "2024-02-10" -> [month |-> 1, time |-> 41]
          [] OTHER -> [month |-> 3, time |-> 96]]

\* TemporalPatternMiner.parseDate on the values of the model (strings, null
\* and absent fields): null for a falsy value or an invalid date
temporalParseDate(dateStr) ==
    IF ~Truthy(dateStr) THEN Null
    ELSE IF dateStr.t = "str" /\ dateStr.s \in DOMAIN TemporalDates THEN Obj(dateStr.s)
    ELSE Null

\* record[k1] || record[k2] || ... : the first truthy operand, else the last
RECURSIVE OrChain(_, _)
OrChain(record, keys) ==
    IF Len(keys) = 1 THEN Get(record, Head(keys))
    ELSE IF Truthy(Get(record, Head(keys))) THEN Get(record, Head(keys))
    ELSE OrChain(record, Tail(keys))

\* record.value || record.amount || record.revenue || 0
ValueOf(record) ==
    LET v == OrChain(record, <<"value", "amount", "revenue">>)
    IN  IF Truthy(v) THEN v ELSE IntNum(0)

\* sort((a, b) => a.date.getTime() - b.date.getTime()): stable
RECURSIVE InsertByTime(_, _)
InsertByTime(sorted, x) ==
    IF sorted = <<>> THEN <<x>>
    ELSE IF TemporalDates[x.date.s].time < TemporalDates[sorted[Len(sorted)].date.s].time
         THEN InsertByTime(SubSeq(sorted, 1, Len(sorted) - 1), x) \o <<sorted[Len(sorted)]>>
         ELSE sorted \o <<x>>

RECURSIVE SortByTime(_)
SortByTime(s) ==
    IF s = <<>> THEN <<>>
    ELSE InsertByTime(SortByTime(SubSeq(s, 1, Len(s) - 1)), s[Len(s)])

\* the points with a date and a positive value, by time (lines 297-303)
TimeSeriesData(records) ==
    LET mapped == [i \in DOMAIN records |->
                      [date |-> temporalParseDate(OrChain(records[i], <<"date", "created_date">>)),
                       value |-> ValueOf(records[i])]]
    IN  SortByTime(SelectSeq(mapped, LAMBDA d : d.date # Null /\ JGt(d.value, IntNum(0))))

\* base + sqrt(sq) * factor, a number that is no fraction
RootSum(base, factor, sq) == [t |-> "root", base |-> base, factor |-> factor, sq |-> sq]

\* Math.min(limit, base + (deviation / threshold) * factor) for a deviation >= 0
\* and a threshold that is the root of threshold.sq
MinWithRatio(limit, base, factor, deviation, threshold) ==
    IF threshold.sq.n = 0
    THEN (IF deviation.n = 0 THEN NaN ELSE IntNum(limit))
    ELSE LET ratioSq == JDiv(JMul(deviation, deviation), threshold.sq)
         IN  IF JGeq(JMul(IntNum(factor * factor), ratioSq),
                     IntNum((limit - base) * (limit - base)))
             THEN IntNum(limit)
             ELSE RootSum(base, factor, ratioSq)

\* Math.min(95, 85 + (deviation / threshold) * 5)
AnomalyConfidenceHalved(deviation, threshold) == MinWithRatio(95, 85, 5, deviation, threshold)

\* Math.min(95, 85 + (deviation / threshold) * 10)
AnomalyConfidence(deviation, threshold) == MinWithRatio(95, 85, 10, deviation, threshold)

\* deviation >= threshold
ExceedsOrReaches(deviation, threshold) == JGeq(JMul(deviation, deviation), threshold.sq)

\* deviation > threshold, for a deviation >= 0 and a threshold that is a root
Exceeds(deviation, threshold) == JGt(JMul(deviation, deviation), threshold.sq)

\* TemporalPatternMiner.findPerformanceAnomalies
findPerformanceAnomalies(records) ==
    LET timeSeriesData == TimeSeriesData(records)
    IN  IF Len(timeSeriesData) < 10 THEN <<>>
        ELSE LET values == [i \in DOMAIN timeSeriesData |-> timeSeriesData[i].value]
                 mean == JDiv(SumNums(values), IntNum(Len(values)))
                 squares == [i \in DOMAIN values |->
                                JMul(JSub(values[i], mean), JSub(values[i], mean))]
                 variance == JDiv(SumNums(squares), IntNum(Len(values)))
                 threshold == SqrtOf(JMul(IntNum(4), variance))
                 anomalyOf(d) ==
                     [date |-> d.date.s,
                      deviation |-> JMul(JDiv(JSub(d.value, mean), mean), IntNum(100)),
                      confidence |-> AnomalyConfidence(JAbs(JSub(d.value, mean)), threshold)]
                 flagged == SelectSeq(timeSeriesData,
                                LAMBDA d : Exceeds(JAbs(JSub(d.value, mean)), threshold))
             IN  [i \in DOMAIN flagged |-> anomalyOf(flagged[i])]

\* TemporalPatternMiner.detectTemporalAnomalies; the description, a text of
\* the date and the deviation, is left out
detectTemporalAnomalies(records) ==
    LET anomalies == findPerformanceAnomalies(records)
    IN  [index \in DOMAIN anomalies |->
            [id |-> "anomaly_" \o ToString(index),
             title |-> "Performance Anomaly - " \o anomalies[index].date,
             pattern |-> "anomaly",
             confidence |-> anomalies[index].confidence,
             impact |-> JAbs(anomalies[index].deviation),
             timeRange |-> [start |-> anomalies[index].date, end |-> anomalies[index].date,
                            frequency |-> "single_event"],
             variables |-> <<"date", "performance", "deviation">>]]

\* array.join(separator) of strings
RECURSIVE JoinStrings(_, _)
JoinStrings(list, separator) ==
    IF list = <<>> THEN ""
    ELSE IF Len(list) = 1 THEN Head(list)
    ELSE Head(list) \o separator \o JoinStrings(Tail(list), separator)

\* TemporalPatternMiner.calculateAverageValue
calculateAverageValue(records) ==
    IF Len(records) = 0 THEN IntNum(0)
    ELSE LET values == SelectSeq([i \in DOMAIN records |-> ValueOf(records[i])],
                                 LAMBDA v : JGt(v, IntNum(0)))
         IN  IF Len(values) > 0 THEN JDiv(SumNums(values), IntNum(Len(values)))
             ELSE IntNum(0)

\* the date of a record for the grouping
GroupingDate(record) ==
    temporalParseDate(OrChain(record, <<"date", "created_date", "submission_date">>))

\* Math.ceil((date.getMonth() + 1) / 3)
QuarterOfMonth(month) == (month + 3) \div 3

\* TemporalPatternMiner.groupByMonth: the entries of the object, which
\* Object.entries lists by ascending month as the keys are integers
groupByMonth(records) ==
    LET dated == SelectSeq(records, LAMBDA r : GroupingDate(r) # Null)
        monthOf(r) == TemporalDates[GroupingDate(r).s].month
        bucket(month) == SelectSeq(dated, LAMBDA r : monthOf(r) = month)
        entries == [month \in 1..12 |-> [key |-> month - 1, records |-> bucket(month - 1)]]
    IN  SelectSeq(entries, LAMBDA e : e.records # <<>>)

\* TemporalPatternMiner.groupByQuarter: the entries in the order in which the
\* quarters first occur, as the keys Q1..Q4 are no integers
groupByQuarter(records) ==
    LET dated == SelectSeq(records, LAMBDA r : GroupingDate(r) # Null)
        quarterOf(r) == QuarterOfMonth(TemporalDates[GroupingDate(r).s].month)
        keys == FirstOccurrences([i \in DOMAIN dated |-> quarterOf(dated[i])])
    IN  [i \in DOMAIN keys |->
            [key |-> keys[i], records |-> SelectSeq(dated, LAMBDA r : quarterOf(r) = keys[i])]]

MonthNames ==
    <<"January", "February", "March", "April", "May", "June",
      "July", "August", "September", "October", "November", "December">>

\* averages.reduce((sum, m) => sum + m.average, 0) / averages.length
MeanOfAverages(averages) ==
    JDiv(SumNums([i \in DOMAIN averages |-> averages[i].average]), IntNum(Len(averages)))

\* the names of the buckets whose average is above the overall average by
\* more than its share: filter(m => m.average > overallAverage + threshold)
SeasonalNames(averages, share) ==
    LET overallAverage == MeanOfAverages(averages)
        threshold == JMul(overallAverage, share)
        kept == SelectSeq(averages, LAMBDA m : JGt(m.average, JAdd(overallAverage, threshold)))
    IN  [i \in DOMAIN kept |-> kept[i].name]

\* TemporalPatternMiner.findSeasonalMonths with a share of 0.1
findSeasonalMonthsTenth(monthlyData) ==
    SeasonalNames([i \in DOMAIN monthlyData |->
                      [name |-> MonthNames[monthlyData[i].key + 1],
                       average |-> calculateAverageValue(monthlyData[i].records)]],
                  JDiv(IntNum(1), IntNum(10)))

\* TemporalPatternMiner.findSeasonalMonths
findSeasonalMonths(monthlyData) ==
    SeasonalNames([i \in DOMAIN monthlyData |->
                      [name |-> MonthNames[monthlyData[i].key + 1],
                       average |-> calculateAverageValue(monthlyData[i].records)]],
                  JDiv(IntNum(1), IntNum(5)))

\* TemporalPatternMiner.findSeasonalQuarters
findSeasonalQuarters(quarterlyData) ==
    SeasonalNames([i \in DOMAIN quarterlyData |->
                      [name |-> ToString(quarterlyData[i].key),
                       average |-> calculateAverageValue(quarterlyData[i].records)]],
                  JDiv(IntNum(3), IntNum(20)))

\* TemporalPatternMiner.calculateSeasonalConfidence
calculateSeasonalConfidence(grouped) ==
    LET periods == Len(grouped)
        periodFactor == JMul(JMin(JDiv(IntNum(periods), IntNum(4)), IntNum(1)), IntNum(20))
    IN  JMin(JAdd(IntNum(70), periodFactor), IntNum(95))

\* TemporalPatternMiner.calculateSeasonalImpact
calculateSeasonalImpact(grouped) ==
    LET averages == [i \in DOMAIN grouped |-> calculateAverageValue(grouped[i].records)]
    IN  IF Len(averages) = 0 THEN IntNum(0)
        ELSE LET maxAvg == JMaxSeq(averages)
                 minAvg == JMinSeq(averages)
                 overallAvg == JDiv(SumNums(averages), IntNum(Len(averages)))
             IN  IF JGt(overallAvg, IntNum(0))
                 THEN JMul(JDiv(JSub(maxAvg, minAvg), overallAvg), IntNum(100))
                 ELSE IntNum(0)

\* TemporalPatternMiner.detectSeasonalPatterns
detectSeasonalPatterns(records) ==
    LET monthlyData == groupByMonth(records)
        seasonalMonths == findSeasonalMonths(monthlyData)
        quarterlyData == groupByQuarter(records)
        seasonalQuarters == findSeasonalQuarters(quarterlyData)
        monthly ==
            [id |-> "seasonal_monthly",
             title |-> "Monthly Seasonal Pattern",
             description |-> "Sales show seasonal variations with peaks in "
                                 \o JoinStrings(seasonalMonths, ", "),
             pattern |-> "seasonal",
             confidence |-> calculateSeasonalConfidence(monthlyData),
             impact |-> calculateSeasonalImpact(monthlyData),
             timeRange |-> [start |-> "January", end |-> "December", frequency |-> "monthly"],
             variables |-> <<"month", "sales_volume", "revenue">>]
        quarterly ==
            [id |-> "seasonal_quarterly",
             title |-> "Quarterly Seasonal Pattern",
             description |-> "Performance varies by quarter with strongest performance in Q"
                                 \o JoinStrings(seasonalQuarters, ", Q"),
             pattern |-> "seasonal",
             confidence |-> calculateSeasonalConfidence(quarterlyData),
             impact |-> calculateSeasonalImpact(quarterlyData),
             timeRange |-> [start |-> "Q1", end |-> "Q4", frequency |-> "quarterly"],
             variables |-> <<"quarter", "performance_metrics", "revenue">>]
    IN  (IF Len(seasonalMonths) > 0 THEN <<monthly>> ELSE <<>>)
            \o (IF Len(seasonalQuarters) > 0 THEN <<quarterly>> ELSE <<>>)

\* The inputs of the temporal miner: runs of equal records.  A run names the
\* fields that hold its date and its value.
MaxSeries == 2
SeriesDates == {"2024-01-15", "2024-02-10", "2024-04-05", "abc"}
SeriesValues == {0, 10, 100}
SeriesCounts == {1, 9}
SeriesFields ==
    {<<"date", "value">>, <<"created_date", "amount">>, <<"submission_date", "revenue">>}

SeriesRun(fields, date, value, count) ==
    [fields |-> fields, date |-> date, value |-> value, count |-> count]

SeriesRuns ==
    {SeriesRun(f, d, v, c) : f \in SeriesFields, d \in SeriesDates,
                             v \in SeriesValues, c \in SeriesCounts}

RECURSIVE ExpandSeries(_)
ExpandSeries(blocks) ==
    IF blocks = <<>> THEN <<>>
    ELSE LET run == Head(blocks)
             record == [k \in {run.fields[1], run.fields[2]} |->
                           IF k = run.fields[1] THEN Str(run.date) ELSE IntNum(run.value)]
         IN  [i \in 1..run.count |-> record] \o ExpandSeries(Tail(blocks))

\* fourteen points of 10 and one of 100, which lies more than three standard
\* deviations above the mean
FifteenPoints ==
    <<SeriesRun(<<"date", "value">>, "2024-01-15", 10, 14),
      SeriesRun(<<"date", "value">>, "2024-02-10", 100, 1)>>

\* eight points of 10 and two of 20, which lie two standard deviations above
\* the mean
TwoDeviations ==
    <<SeriesRun(<<"date", "value">>, "2024-01-15", 10, 8),
      SeriesRun(<<"date", "value">>, "2024-04-05", 20, 2)>>

\* three months of two quarters
ThreeMonths ==
    <<SeriesRun(<<"date", "value">>, "2024-04-05", 100, 1),
      SeriesRun(<<"date", "value">>, "2024-01-15", 10, 1),
      SeriesRun(<<"created_date", "amount">>, "2024-02-10", 10, 1)>>

\* two months whose means differ by less than the share of either granularity
NarrowPeak ==
    <<SeriesRun(<<"date", "value">>, "2024-01-15", 10, 1),
      SeriesRun(<<"date", "value">>, "2024-04-05", 13, 1)>>

LongSeries == {FifteenPoints, TwoDeviations, ThreeMonths, NarrowPeak}

InitTemporal ==
    /\ series \in SeqsUpTo(SeriesRuns, MaxSeries) \cup LongSeries
    /\ seasonalOut = [status |-> "none"]
    /\ anomalyOut = [status |-> "none"]
    /\ dataSources = <<>>
    /\ now = ClockStart
    /\ IdleMerger
    /\ IdleAnalyze
    /\ IdleMiner
    /\ IdleEncode
    /\ IdleScorer
    /\ IdleJson
    /\ IdleCleaner
    /\ IdleDetect

\* detectSeasonalPatterns(data)
DetectSeasonalPatterns ==
    /\ seasonalOut' = [status |-> "returned",
                       patterns |-> detectSeasonalPatterns(ExpandSeries(series))]
    /\ UNCHANGED <<mergerVars, analyzeVars, minerVars, encodeVars, scorerVars, jsonVars,
                   cleanerVars, detectVars, series, anomalyOut>>

\* detectTemporalAnomalies(data)
DetectTemporalAnomalies ==
    /\ anomalyOut' = [status |-> "returned",
                      patterns |-> detectTemporalAnomalies(ExpandSeries(series))]
    /\ UNCHANGED <<mergerVars, analyzeVars, minerVars, encodeVars, scorerVars, jsonVars,
                   cleanerVars, detectVars, series, seasonalOut>>

NextTemporal == DetectSeasonalPatterns \/ DetectTemporalAnomalies

SpecTemporal == InitTemporal /\ [][NextTemporal]_vars

\* the records that are points of the series: a parseable date and a value > 0
SeriesPoints(records) ==
    SelectSeq(records,
        LAMBDA r : /\ temporalParseDate(OrChain(r, <<"date", "created_date">>)) # Null
                   /\ JGt(ValueOf(r), IntNum(0)))

\* a confidence that is at least 85
AtLeast85(confidence) ==
    IF confidence.t = "root" THEN confidence.base >= 85 /\ confidence.factor >= 0
    ELSE JGeq(confidence, IntNum(85))

AnomaliesOfSeries(records, patterns) ==
    LET points == SeriesPoints(records)
        n == Len(points)
        dateOf(i) == OrChain(points[i], <<"date", "created_date">>).s
        mean == JDiv(SumNums([i \in 1..n |-> ValueOf(points[i])]), IntNum(n))
        deviation(i) == JSub(ValueOf(points[i]), mean)
        variance == JDiv(SumNums([i \in 1..n |-> JMul(deviation(i), deviation(i))]), IntNum(n))
        \* |deviation| > 2 * sqrt(variance)
        beyond(i) == JGt(JMul(deviation(i), deviation(i)), JMul(IntNum(4), variance))
        flagged == {i \in 1..n : beyond(i)}
        percent(i) == JAbs(JMul(JDiv(deviation(i), mean), IntNum(100)))
        matches(p, i) == p.timeRange.start = dateOf(i) /\ p.impact = percent(i)
    IN  IF n < 10 THEN patterns = <<>>
        ELSE /\ Len(patterns) = Cardinality(flagged)
             /\ \A i \in flagged :
                    Cardinality({k \in DOMAIN patterns : matches(patterns[k], i)})
                        = Cardinality({j \in flagged : dateOf(j) = dateOf(i)
                                                       /\ percent(j) = percent(i)})
             /\ \A k \in DOMAIN patterns :
                    /\ \E i \in flagged : matches(patterns[k], i)
                    /\ AtLeast85(patterns[k].confidence)

\* C23: findPerformanceAnomalies returns no anomaly when fewer than 10 records
\* have a parseable date and a positive value; otherwise there is one pattern
\* for each point whose absolute deviation from the mean of the series is
\* strictly above 2 population standard deviations, and for no other point,
\* each with a confidence of at least 85; the series of 15 points with one
\* point more than 3 standard deviations above the mean yields one anomaly.
C23_AnomaliesBeyondTwoDeviations ==
    anomalyOut.status = "returned" =>
        /\ AnomaliesOfSeries(ExpandSeries(series), anomalyOut.patterns)
        /\ series = FifteenPoints =>
               /\ Len(anomalyOut.patterns) = 1
               /\ anomalyOut.patterns[1].timeRange.start = "2024-02-10"

C23_Witness ==
    /\ anomalyOut.status = "returned"
    /\ series = FifteenPoints
    /\ Len(anomalyOut.patterns) = 1

\* a series of at least 10 points of which none is flagged though two lie
\* exactly 2 standard deviations above the mean
C23_WitnessBoundary ==
    /\ anomalyOut.status = "returned"
    /\ series = TwoDeviations
    /\ anomalyOut.patterns = <<>>

\* C29: every anomaly pattern of the temporal miner has confidence exactly 95
C29_AnomalyConfidenceIs95 ==
    anomalyOut.status = "returned" =>
        \A k \in DOMAIN anomalyOut.patterns : anomalyOut.patterns[k].confidence = IntNum(95)

\* anomalies of different deviations with the same confidence
C29_Witness ==
    /\ anomalyOut.status = "returned"
    /\ \E k \in DOMAIN anomalyOut.patterns : anomalyOut.patterns[k].confidence = IntNum(95)
    /\ \E blocks \in SeqsUpTo(SeriesRuns, MaxSeries) :
           /\ blocks # series
           /\ LET other == detectTemporalAnomalies(ExpandSeries(blocks))
              IN  /\ other # <<>>
                  /\ other[1].impact # anomalyOut.patterns[1].impact
                  /\ other[1].confidence = anomalyOut.patterns[1].confidence

\* the mean of the positive values of records, 0 when there is none
MeanOfPositive(records) ==
    LET positive == SelectSeq([i \in DOMAIN records |-> ValueOf(records[i])],
                              LAMBDA v : JGt(v, IntNum(0)))
    IN  IF positive = <<>> THEN IntNum(0)
        ELSE JDiv(SumNums(positive), IntNum(Len(positive)))

\* the dated records of a month (0..11) and of a quarter (1..4)
RecordsOfMonth(records, month) ==
    SelectSeq(records, LAMBDA r : /\ GroupingDate(r) # Null
                                  /\ TemporalDates[GroupingDate(r).s].month = month)

RecordsOfQuarter(records, quarter) ==
    SelectSeq(records, LAMBDA r : /\ GroupingDate(r) # Null
                                  /\ TemporalDates[GroupingDate(r).s].month \div 3 = quarter - 1)

\* the mean of the means of the buckets, each bucket counting once
MeanOfBucketMeans(means) ==
    LET keys == DOMAIN means
        RECURSIVE Total(_)
        Total(S) == IF S = {} THEN IntNum(0)
                    ELSE LET k == CHOOSE x \in S : TRUE
                         IN  JAdd(means[k], Total(S \ {k}))
    IN  JDiv(Total(keys), IntNum(Cardinality(keys)))

\* the buckets whose mean is above overall by more than share of overall
BucketsAbove(means, overall, share) ==
    {k \in DOMAIN means : JGt(means[k], JAdd(overall, JMul(overall, share)))}

\* a text that is prefix followed by the names of the keys in some order
NamesSomeOrder(text, prefix, separator, keys, NameOf(_)) ==
    \E order \in [1..Cardinality(keys) -> keys] :
        /\ \A i, j \in DOMAIN order : i # j => order[i] # order[j]
        /\ text = prefix \o JoinStrings([i \in DOMAIN order |-> NameOf(order[i])], separator)

MonthMeans(records) ==
    [month \in {k \in 0..11 : RecordsOfMonth(records, k) # <<>>} |->
        MeanOfPositive(RecordsOfMonth(records, month))]

QuarterMeans(records) ==
    [quarter \in {k \in 1..4 : RecordsOfQuarter(records, k) # <<>>} |->
        MeanOfPositive(RecordsOfQuarter(records, quarter))]

PatternsWithId(patterns, id) == SelectSeq(patterns, LAMBDA p : p.id = id)

\* one pattern of the granularity that names the flagged buckets when there is
\* a flagged bucket, none otherwise
OnePatternIffFlagged(patterns, id, flagged, prefix, separator, NameOf(_)) ==
    LET emitted == PatternsWithId(patterns, id)
    IN  IF flagged = {} THEN emitted = <<>>
        ELSE /\ Len(emitted) = 1
             /\ NamesSomeOrder(emitted[1].description, prefix, separator, flagged, NameOf)

MonthName(month) == MonthNames[month + 1]
QuarterName(quarter) == ToString(quarter)

SeasonalByOverall(records, patterns, monthOverall, quarterOverall) ==
    /\ OnePatternIffFlagged(patterns, "seasonal_monthly",
           BucketsAbove(MonthMeans(records), monthOverall, JDiv(IntNum(1), IntNum(5))),
           "Sales show seasonal variations with peaks in ", ", ", MonthName)
    /\ OnePatternIffFlagged(patterns, "seasonal_quarterly",
           BucketsAbove(QuarterMeans(records), quarterOverall, JDiv(IntNum(3), IntNum(20))),
           "Performance varies by quarter with strongest performance in Q", ", Q", QuarterName)
    /\ Len(patterns) = Len(PatternsWithId(patterns, "seasonal_monthly"))
                          + Len(PatternsWithId(patterns, "seasonal_quarterly"))

\* C24 (amended): a month (quarter) is flagged iff its mean exceeds the overall
\* mean by more than 20% (15%) of the overall mean, where the overall mean is
\* the mean of the means of the buckets, each bucket counting once; one
\* pattern per granularity is emitted iff a bucket of it is flagged, and it
\* names the flagged buckets; records of a single bucket, or buckets of equal
\* means, yield no seasonal pattern.
C24_FlaggedAboveMeanOfBucketMeans ==
    seasonalOut.status = "returned" =>
        LET records == ExpandSeries(series)
            months == MonthMeans(records)
            quarters == QuarterMeans(records)
        IN  /\ (DOMAIN months # {} /\ DOMAIN quarters # {}) =>
                   SeasonalByOverall(records, seasonalOut.patterns,
                                     MeanOfBucketMeans(months), MeanOfBucketMeans(quarters))
            /\ DOMAIN months = {} => seasonalOut.patterns = <<>>
            /\ (\A a, b \in DOMAIN months : months[a] = months[b]) =>
                   PatternsWithId(seasonalOut.patterns, "seasonal_monthly") = <<>>
            /\ (\A a, b \in DOMAIN quarters : quarters[a] = quarters[b]) =>
                   PatternsWithId(seasonalOut.patterns, "seasonal_quarterly") = <<>>

\* a month and a quarter flagged, one pattern of each granularity
C24_Witness ==
    /\ seasonalOut.status = "returned"
    /\ series = ThreeMonths
    /\ Len(seasonalOut.patterns) = 2
    /\ seasonalOut.patterns[1].description
           = "Sales show seasonal variations with peaks in April"
    /\ seasonalOut.patterns[2].description
           = "Performance varies by quarter with strongest performance in Q2"

\* buckets of different means of which none is flagged
C24_WitnessNarrow ==
    /\ seasonalOut.status = "returned"
    /\ series = NarrowPeak
    /\ seasonalOut.patterns = <<>>

\* C24 as stated, the overall mean being the mean of the values of all dated
\* records: a bucket is flagged iff its mean exceeds that mean by more than
\* 20% (15%) of it, and one pattern per granularity is emitted iff a bucket
\* is flagged; stated for records whose values are all positive
C24_FlaggedAboveMeanOfAllValues ==
    seasonalOut.status = "returned" =>
        LET records == ExpandSeries(series)
            dated == SelectSeq(records, LAMBDA r : GroupingDate(r) # Null)
        IN  (dated # <<>> /\ \A i \in DOMAIN dated : JGt(ValueOf(dated[i]), IntNum(0))) =>
                SeasonalByOverall(records, seasonalOut.patterns,
                                  MeanOfPositive(dated), MeanOfPositive(dated))

\* a finite number that is not negative
FiniteNonNegative(v) == v.t = "num" /\ v.n >= 0

\* C25: the certification and quarter-end detectors of an analysis return
\* patterns whose impact and confidence are finite, non-negative numbers, also
\* when the mean profit of the comparison group is 0
C25_DetectorMeasuresFinite ==
    \A i \in DOMAIN runs :
        runs[i].status = "resolved" =>
            \A k \in DOMAIN runs[i].patterns :
                /\ FiniteNonNegative(runs[i].patterns[k].impact)
                /\ FiniteNonNegative(runs[i].patterns[k].confidence)

\* C26: after calls of cleanAndTransformData with the caller's config object,
\* the dateColumns, numericColumns and categoricalColumns lists of that object
\* hold exactly their initial contents
C26_CallerConfigListsKept ==
    cleanOut.status # "none" =>
        \A k \in DOMAIN cleanerInput.configGiven
                     \cap {"dateColumns", "numericColumns", "categoricalColumns"} :
            cleanerInput.config[k] = cleanerInput.configGiven[k]

\* C27: the support the scorer derives for a candidate lies in [0.018, 0.36]
\* whatever the data of the pattern; it is never 0, so the lift is
\* confidence / support; scoreAndFilterPatterns returns an empty list whenever
\* minSupport is above 0.36.
C27_DerivedSupportInBand ==
    scoreOut.status = "returned" =>
        /\ \A i \in DOMAIN scoreOut.input :
               LET scores == calculatePatternScores(scoreOut.input[i])
               IN  /\ JGeq(scores.support, Num(18, 1000))
                   /\ JLeq(scores.support, Num(36, 100))
                   /\ scores.lift = JDiv(scores.confidence, scores.support)
        /\ \A i \in DOMAIN scoreOut.patterns :
               /\ JGeq(scoreOut.patterns[i].scores.support, Num(18, 1000))
               /\ JLeq(scoreOut.patterns[i].scores.support, Num(36, 100))
        /\ JGt(scoreOut.minSupport, Num(36, 100)) => scoreOut.patterns = <<>>

\* candidates at both ends of the band, all dropped by a minSupport of 0.6
\* though the confidence threshold is 0
C27_Witness ==
    /\ scoreOut.status = "returned"
    /\ scoreOut.minSupport = Num(6, 10)
    /\ scoreOut.minConfidence = IntNum(0)
    /\ scoreOut.maxPatterns > 0
    /\ \E i \in DOMAIN scoreOut.input :
           calculatePatternScores(scoreOut.input[i]).support = Num(18, 1000)
    /\ \E i \in DOMAIN scoreOut.input :
           calculatePatternScores(scoreOut.input[i]).support = Num(36, 100)
    /\ scoreOut.patterns = <<>>

\* the scores of the pattern are those the PatternScorer computes for it
ScoresFromScorer(pattern) == pattern.scores = calculatePatternScores(pattern)

\* C28: validatePattern never reports 'Inconsistent lift and confidence' for a
\* pattern whose scores the PatternScorer produced: a lift under 1 comes with
\* a confidence under the support, which is at most 0.36.
C28_NoInconsistencyForScorerScores ==
    validationOut.status = "returned" =>
        /\ \A i \in DOMAIN validationOut.invalid :
               ScoresFromScorer(validationOut.invalid[i].pattern) =>
                   validationOut.invalid[i].reason # "Inconsistent lift and confidence"
        /\ \A i \in DOMAIN validationOut.input :
               LET pattern == validationOut.input[i]
               IN  (ScoresFromScorer(pattern) /\ JLt(pattern.scores.lift, IntNum(1))) =>
                       JLt(pattern.scores.confidence, Num(36, 100))

\* scorer-made patterns in the input: one of confidence above 0.8 found valid,
\* one of lift under 1 that passes the three score limits
C28_Witness ==
    /\ validationOut.status = "returned"
    /\ \E i \in DOMAIN validationOut.valid :
           /\ ScoresFromScorer(validationOut.valid[i])
           /\ JGt(validationOut.valid[i].scores.confidence, Num(8, 10))
    /\ \E i \in DOMAIN validationOut.valid :
           /\ ScoresFromScorer(validationOut.valid[i])
           /\ JLt(validationOut.valid[i].scores.lift, IntNum(1))

\* C30: detectColumnType returns text only for a column without a value that
\* is neither null nor absent; for any other column the type is date,
\* numeric, boolean or categorical and the confidence is at least 0.2
C30_TextOnlyForEmptyColumn ==
    typeOut.status = "returned" =>
        LET column == Expand(columnInput)
            hasValue == \E i \in DOMAIN column :
                            Get(column[i], "value").t \notin {"undef", "null"}
        IN  /\ typeOut.result.type = "text" <=> ~hasValue
            /\ hasValue =>
                   /\ typeOut.result.type \in {"date", "numeric", "boolean", "categorical"}
                   /\ JGeq(typeOut.result.confidence, Num(2, 10))

\* a column whose only value matches no type: categorical at the floor of 0.2
C30_Witness ==
    /\ typeOut.status = "returned"
    /\ columnInput = << Run(Null, 3), Run(Str("abc"), 1) >>
    /\ typeOut.result = TypeConfidence("categorical", Num(2, 10))

\* a column of nulls only
C30_WitnessEmpty ==
    /\ typeOut.status = "returned"
    /\ columnInput = << Run(Null, 3) >>
    /\ typeOut.result = TypeConfidence("text", IntNum(0))

=============================================================================
